---- MODULE Spec2Model ----
(***************************************************************************)
(* State-machine model of GraphCLI (src/apls/graph_cli.py): the node, edge *)
(* and cluster registries, the current isolation, and one action per       *)
(* command handler of GraphCLI.handle.                                     *)
(*                                                                         *)
(* Text is modelled by what the code does with it:                         *)
(*   - a word of a command is a part <<kind, n>>: kind "d" is the decimal  *)
(*     text of the integer n, kind "w" is a word int() rejects;            *)
(*   - an edge name is the sequence of the parts that "_" separates, so    *)
(*     make_edge_name builds three parts and split_edge_name reads the     *)
(*     first two back, with the (-1,-1) sentinel for anything else;        *)
(*   - a CSV cell is a record of its stripped text and of what int()       *)
(*     makes of it.                                                        *)
(* res is the kind of the value handle() produced for the last command:    *)
(* "ok", "info" ([INFO] ...), "usage" (Usage: ...), one of the [ERROR] ... *)
(* kinds below, or "raise" when handle() left by an exception instead of   *)
(* returning.  out is what that value lists: ids and paths.                *)
(***************************************************************************)
EXTENDS Integers, Sequences, FiniteSets, TLC

VARIABLES nodes, edges, clusters, current_view, res, out, ncmds,
          session_len, walk, search

vars == <<nodes, edges, clusters, current_view, res, out, ncmds,
          session_len, walk, search>>

(***************************************************************************)
(* Bounds of the model.                                                    *)
(***************************************************************************)
\* node ids the commands may name are -1 and 1..MaxNodeId
MaxNodeId == 2
\* sequence ids `edge new` may name are 1..MaxEid
MaxEid == 1
\* the edge table is explored up to this many edges
MaxEdges == 2
\* a session is explored up to this many commands
MaxCmds == 3
\* a path search is followed for up to this many passes of its while loop
MaxSteps == 8
\* the path and neighbour queries name the node ids 1..MaxPathId
MaxPathId == 3

DEFAULT_CLUSTER == "_all_"

NodeIds == {-1} \cup (1..MaxNodeId)
Vals == {"A", "B"}
\* the value word the edge-creating commands are run with, and the one the
\* edge updates are run with
NewVals == {"A"}
UpVals == {"B"}
ClusterNames == {DEFAULT_CLUSTER, "c1", "c2"}

(***************************************************************************)
(* Words of a command line.                                                *)
(***************************************************************************)
IntTok(n) == <<"d", n>>
WordTok == <<"w", 0>>
\* int(t) succeeds
IsInt(t) == t[1] = "d"
IntOf(t) == t[2]
\* str.isdigit(): decimal digits only, so no sign
IsDigit(t) == t[1] = "d" /\ t[2] >= 0

\* the words tried where a command converts a node id with int()
IdToks == {IntTok(n) : n \in NodeIds} \cup {WordTok}
\* the words tried where a command first asks isdigit(): "-1" is the one that fails it
PairToks == {IntTok(n) : n \in 1..MaxNodeId} \cup {IntTok(-1)}
EidToks == {IntTok(e) : e \in 1..MaxEid}

(***************************************************************************)
(* Values.  A node value is the text given to `node new` / `node up`, or   *)
(* the integer id itself for a node the importer creates.                  *)
(***************************************************************************)
StrVal(s) == [isint |-> FALSE, s |-> s, n |-> 0]
IntVal(n) == [isint |-> TRUE, s |-> "", n |-> n]

(***************************************************************************)
(* Edge identifier codec.                                                  *)
(***************************************************************************)
make_edge_name(a, b, eid) == <<IntTok(a), IntTok(b), IntTok(eid)>>

\* name.split("_", 2) must give three pieces whose first two int() accepts
split_edge_name(name) ==
    IF Len(name) >= 3 /\ IsInt(name[1]) /\ IsInt(name[2])
    THEN <<IntOf(name[1]), IntOf(name[2])>>
    ELSE <<-1, -1>>

EndpointSet(name) == {split_edge_name(name)[1], split_edge_name(name)[2]}

(***************************************************************************)
(* Finite-function helpers.                                                *)
(***************************************************************************)
Restrict(f, S) == [k \in S |-> f[k]]
Put(f, k, v) == [x \in (DOMAIN f) \cup {k} |-> IF x = k THEN v ELSE f[x]]

(***************************************************************************)
(* _sync_default_cluster, as a function of the registries.                 *)
(***************************************************************************)
SyncDefault(cl, nd) ==
    Put(cl, DEFAULT_CLUSTER, [nodes |-> DOMAIN nd, value |-> "All existing nodes"])

(***************************************************************************)
(* Visibility.                                                             *)
(***************************************************************************)
\* visible_nodes() indexes self.clusters[current_view]: a KeyError if absent
ViewOK == current_view = DEFAULT_CLUSTER \/ current_view \in DOMAIN clusters

\* visible_nodes without the isolation: every registered node
visible_nodes_unisolated == DOMAIN nodes

visible_nodes ==
    IF current_view = DEFAULT_CLUSTER THEN DOMAIN nodes
    ELSE clusters[current_view].nodes

\* visible_edge asking for one visible endpoint only
visible_edge_either(name) ==
    \/ split_edge_name(name)[1] \in visible_nodes
    \/ split_edge_name(name)[2] \in visible_nodes

visible_edge(name) ==
    /\ split_edge_name(name)[1] \in visible_nodes
    /\ split_edge_name(name)[2] \in visible_nodes

edge_in_cluster(cname, name) ==
    /\ split_edge_name(name)[1] \in clusters[cname].nodes
    /\ split_edge_name(name)[2] \in clusters[cname].nodes

(***************************************************************************)
(* Results.  The [ERROR] strings of the handlers, by what they say:        *)
(*   exists       node exists / edge exists / cluster (already) exists     *)
(*   not in view  node|nodes|edge not in current view / not in(side)       *)
(*                cluster                                                  *)
(*   not found    edge|cluster not found / node not found globally /       *)
(*                nodes [...] not found                                    *)
(*   forbidden    cannot remove default or active cluster / cannot modify  *)
(*                default cluster                                          *)
(*   invalid      cannot open file / invalid matrix format / invalid edge  *)
(*                identifier / empty or unknown command                    *)
(***************************************************************************)
E_EXISTS == "[ERROR] exists"
E_NOT_IN_VIEW == "[ERROR] not in view"
E_NOT_FOUND == "[ERROR] not found"
E_FORBIDDEN == "[ERROR] forbidden"
E_INVALID == "[ERROR] invalid"
ErrorKinds == {E_EXISTS, E_NOT_IN_VIEW, E_NOT_FOUND, E_FORBIDDEN, E_INVALID}
IsError(r) == r \in ErrorKinds

\* the command returns kind r and writes nothing
\* what the value of handle() carries besides its kind: the ids a message
\* lists (the missing ids of cluster new, the neighbours of `nbr`), the
\* number it states (the degree `n` prints, the edges an import added), and
\* the paths of a path query in the order printed
\* the query a reply answers: its command word, its scope (the view or a
\* cluster name) and the ids it parsed; NoAsk for every other command
VIEW_SCOPE == "<view>"
NoAsk == [cmd |-> "", scope |-> "", src |-> 0, dst |-> 0]
Ask(cmd, scope, src, dst) == [cmd |-> cmd, scope |-> scope, src |-> src, dst |-> dst]
NoOut == [ids |-> {}, count |-> 0, paths |-> << >>, ask |-> NoAsk]
Result(r) == res' = r /\ out' = NoOut
Reply(r) == Result(r) /\ UNCHANGED <<nodes, edges, clusters, current_view>>

\* The surroundings of the store.  session_len is the number of command
\* lines the user types before quitting.  walk is how this interpreter
\* walks a set or the edge dict in a for loop: WALK_ANY leaves the order
\* open at every loop, which is all the store tells; WALK_ASC and WALK_DESC
\* are two interpreters that walk equal collections in one fixed order
\* (ascending or descending ids, the edges of a pair by sequence id), as a
\* running Python process does.  search is the work state of a path search
\* in progress, for the specification that follows a search loop by loop.
WALK_ANY == "any"
WALK_ASC == "asc"
WALK_DESC == "desc"
NoSearch == [pc |-> "idle", src |-> 0, dst |-> 0, steps |-> 0,
             stack |-> << >>, paths |-> << >>, queue |-> << >>, seen |-> {}]

\* one more command line is typed
Typed ==
    /\ ncmds < session_len
    /\ ncmds' = ncmds + 1
    /\ UNCHANGED <<session_len, walk>>

\* one more command of the session, handled in one step
Tick == Typed /\ UNCHANGED search

\* the store GraphCLI() constructs, before the first command
Constructed ==
    /\ nodes = << >>
    /\ edges = << >>
    /\ clusters = SyncDefault(<< >>, << >>)
    /\ current_view = DEFAULT_CLUSTER
    /\ res = "none"
    /\ out = NoOut
    /\ ncmds = 0
    /\ search = NoSearch

Init ==
    /\ Constructed
    /\ session_len = MaxCmds
    /\ walk = WALK_ANY

(***************************************************************************)
(* Global node commands.                                                   *)
(***************************************************************************)
NodeList ==
    Tick /\
    IF ~ViewOK THEN Reply("raise")
    ELSE IF visible_nodes = {} THEN Reply("info")
    ELSE IF visible_nodes \subseteq DOMAIN nodes THEN Reply("ok")
    ELSE Reply("raise")

\* NodeNew without lines 502-503, which add the id to the isolated cluster
NodeNewNoAutoAdd(t, v) ==
    Tick /\
    IF ~ViewOK \/ ~IsInt(t) THEN Reply("raise")
    ELSE IF IntOf(t) \in DOMAIN nodes THEN Reply(E_EXISTS)
    ELSE /\ nodes' = Put(nodes, IntOf(t), StrVal(v))
         /\ clusters' = SyncDefault(clusters, nodes')
         /\ Result("ok")
         /\ UNCHANGED <<edges, current_view>>

\* NodeNew without the check of line 497-498 that the id is free
NodeNewOverwrite(t, v) ==
    Tick /\
    IF ~ViewOK \/ ~IsInt(t) THEN Reply("raise")
    ELSE /\ nodes' = Put(nodes, IntOf(t), StrVal(v))
         /\ clusters' =
              LET synced == SyncDefault(clusters, nodes')
              IN  IF current_view # DEFAULT_CLUSTER
                  THEN [synced EXCEPT ![current_view].nodes = @ \cup {IntOf(t)}]
                  ELSE synced
         /\ Result("ok")
         /\ UNCHANGED <<edges, current_view>>

NodeNew(t, v) ==
    Tick /\
    IF ~ViewOK \/ ~IsInt(t) THEN Reply("raise")
    ELSE IF IntOf(t) \in DOMAIN nodes THEN Reply(E_EXISTS)
    ELSE /\ nodes' = Put(nodes, IntOf(t), StrVal(v))
         /\ clusters' =
              LET synced == SyncDefault(clusters, nodes')
              IN  IF current_view # DEFAULT_CLUSTER
                  THEN [synced EXCEPT ![current_view].nodes = @ \cup {IntOf(t)}]
                  ELSE synced
         /\ Result("ok")
         /\ UNCHANGED <<edges, current_view>>

NodeGet(t) ==
    Tick /\
    IF ~ViewOK \/ ~IsInt(t) THEN Reply("raise")
    ELSE IF IntOf(t) \notin visible_nodes THEN Reply(E_NOT_IN_VIEW)
    ELSE IF IntOf(t) \in DOMAIN nodes THEN Reply("ok")
    ELSE Reply("raise")

NodeUp(t, v) ==
    Tick /\
    IF ~ViewOK \/ ~IsInt(t) THEN Reply("raise")
    ELSE IF IntOf(t) \notin visible_nodes THEN Reply(E_NOT_IN_VIEW)
    ELSE /\ nodes' = Put(nodes, IntOf(t), StrVal(v))
         /\ Result("ok")
         /\ UNCHANGED <<edges, clusters, current_view>>

\* NodeRmv with the edge cleanup of line 532 left out
NodeRmvKeepEdges(t) ==
    Tick /\
    IF ~ViewOK \/ ~IsInt(t) THEN Reply("raise")
    ELSE IF IntOf(t) \notin visible_nodes THEN Reply(E_NOT_IN_VIEW)
    ELSE IF IntOf(t) \notin DOMAIN nodes THEN Reply("raise")
    ELSE /\ nodes' = Restrict(nodes, DOMAIN nodes \ {IntOf(t)})
         /\ clusters' =
              SyncDefault([c \in DOMAIN clusters |->
                             [clusters[c] EXCEPT !.nodes = @ \ {IntOf(t)}]],
                          nodes')
         /\ Result("ok")
         /\ UNCHANGED <<edges, current_view>>

NodeRmv(t) ==
    Tick /\
    IF ~ViewOK \/ ~IsInt(t) THEN Reply("raise")
    ELSE IF IntOf(t) \notin visible_nodes THEN Reply(E_NOT_IN_VIEW)
    ELSE IF IntOf(t) \notin DOMAIN nodes THEN Reply("raise")
    ELSE /\ nodes' = Restrict(nodes, DOMAIN nodes \ {IntOf(t)})
         /\ edges' = Restrict(edges, {k \in DOMAIN edges : IntOf(t) \notin EndpointSet(k)})
         /\ clusters' =
              SyncDefault([c \in DOMAIN clusters |->
                             [clusters[c] EXCEPT !.nodes = @ \ {IntOf(t)}]],
                          nodes')
         /\ Result("ok")
         /\ UNCHANGED current_view

(***************************************************************************)
(* Edge names the commands may give: every canonical name over the model's *)
(* ids, a word with no "_" at all, a name whose sequence part is a word,   *)
(* and whatever the edge table holds.                                      *)
(***************************************************************************)
CanonNames == {make_edge_name(i, j, e) : i \in NodeIds, j \in NodeIds, e \in 1..MaxEid}
SpecialNames == {<<WordTok>>, <<IntTok(1), IntTok(1), WordTok>>}
\* names tried by `edge up <name>`, which writes under the name it is given
NameToks == CanonNames \cup SpecialNames \cup DOMAIN edges
\* names tried by the commands that only look a name up: the stored ones and two others
LookupNames == DOMAIN edges \cup {<<WordTok>>, make_edge_name(1, 1, 1)}

\* the model explores the edge table up to MaxEdges keys
RoomFor(name) == name \in DOMAIN edges \/ Cardinality(DOMAIN edges) < MaxEdges

\* parse_edge_id: three digit words make a canonical name, one word is the name
TokIsDigit(w) == Len(w) = 1 /\ IsDigit(w[1])
parse_edge_id(tokens) ==
    IF Len(tokens) = 3 /\ \A k \in 1..3 : TokIsDigit(tokens[k])
    THEN [name |-> make_edge_name(IntOf(tokens[1][1]), IntOf(tokens[2][1]),
                                  IntOf(tokens[3][1])),
          err |-> FALSE]
    ELSE IF Len(tokens) = 1 THEN [name |-> tokens[1], err |-> FALSE]
    ELSE [name |-> << >>, err |-> TRUE]

\* the edges whose decoded endpoint set is {i, j}
EdgesBetween(i, j) == {k \in DOMAIN edges : EndpointSet(k) = {i, j}}

(***************************************************************************)
(* Global edge commands.                                                   *)
(***************************************************************************)
EdgeList ==
    Tick /\
    IF ~ViewOK THEN Reply("raise")
    ELSE IF \E k \in DOMAIN edges : visible_edge(k) /\ Len(k) = 3 /\ \A p \in 1..3 : IsInt(k[p])
    THEN Reply("ok")
    ELSE Reply("info")

EdgeNew(ti, tj, te, v) ==
    Tick /\
    IF ~ViewOK THEN Reply("raise")
    ELSE IF ~(IsDigit(ti) /\ IsDigit(tj) /\ IsDigit(te)) THEN Reply("usage")
    ELSE IF IntOf(ti) \notin visible_nodes \/ IntOf(tj) \notin visible_nodes
    THEN Reply(E_NOT_IN_VIEW)
    ELSE IF make_edge_name(IntOf(ti), IntOf(tj), IntOf(te)) \in DOMAIN edges
    THEN Reply(E_EXISTS)
    ELSE /\ RoomFor(make_edge_name(IntOf(ti), IntOf(tj), IntOf(te)))
         /\ edges' = Put(edges, make_edge_name(IntOf(ti), IntOf(tj), IntOf(te)), v)
         /\ Result("ok")
         /\ UNCHANGED <<nodes, clusters, current_view>>

\* edge get <name>
EdgeGetName(name) ==
    Tick /\
    IF ~ViewOK THEN Reply("raise")
    ELSE IF parse_edge_id(<<name>>).err THEN Reply(E_INVALID)
    ELSE IF parse_edge_id(<<name>>).name \notin DOMAIN edges THEN Reply(E_NOT_FOUND)
    ELSE IF ~visible_edge(parse_edge_id(<<name>>).name) THEN Reply(E_NOT_IN_VIEW)
    ELSE Reply("ok")

\* edge get <i> <j> with two digit words; anything else is read as a name
EdgeGetPair(ti, tj) ==
    IF IsDigit(ti) /\ IsDigit(tj)
    THEN Tick /\
         IF ~ViewOK THEN Reply("raise")
         ELSE IF IntOf(ti) \notin visible_nodes \/ IntOf(tj) \notin visible_nodes
         THEN Reply(E_NOT_IN_VIEW)
         ELSE IF EdgesBetween(IntOf(ti), IntOf(tj)) = {} THEN Reply("info")
         ELSE Reply("ok")
    ELSE EdgeGetName(<<ti>>)

\* edge rmv <name>  or  edge rmv <i> <j> <eid>
EdgeRmv(tokens) ==
    Tick /\
    IF ~ViewOK THEN Reply("raise")
    ELSE IF parse_edge_id(tokens).err THEN Reply(E_INVALID)
    ELSE IF parse_edge_id(tokens).name \notin DOMAIN edges THEN Reply(E_NOT_FOUND)
    ELSE IF ~visible_edge(parse_edge_id(tokens).name) THEN Reply(E_NOT_IN_VIEW)
    ELSE /\ edges' = Restrict(edges, DOMAIN edges \ {parse_edge_id(tokens).name})
         /\ Result("ok")
         /\ UNCHANGED <<nodes, clusters, current_view>>

\* edge up <i> <j> <value> with two digit words: every edge between i and j
EdgeUpPair(ti, tj, v) ==
    Tick /\ IsDigit(ti) /\ IsDigit(tj) /\
    IF ~ViewOK THEN Reply("raise")
    ELSE IF IntOf(ti) \notin visible_nodes \/ IntOf(tj) \notin visible_nodes
    THEN Reply(E_NOT_IN_VIEW)
    ELSE /\ edges' = [k \in DOMAIN edges |->
                        IF k \in EdgesBetween(IntOf(ti), IntOf(tj)) THEN v ELSE edges[k]]
         /\ Result("ok")
         /\ UNCHANGED <<nodes, clusters, current_view>>

\* edge up <name> <value>
EdgeUpName(name, v) ==
    Tick /\
    IF ~ViewOK THEN Reply("raise")
    ELSE IF parse_edge_id(<<name>>).err THEN Reply(E_INVALID)
    ELSE IF ~visible_edge(parse_edge_id(<<name>>).name) THEN Reply(E_NOT_IN_VIEW)
    ELSE /\ RoomFor(parse_edge_id(<<name>>).name)
         /\ edges' = Put(edges, parse_edge_id(<<name>>).name, v)
         /\ Result("ok")
         /\ UNCHANGED <<nodes, clusters, current_view>>

\* the argument lists `edge rmv` is tried with
RmvArgs ==
    {<<n>> : n \in LookupNames} \cup
    {<<<<IntTok(i)>>, <<IntTok(j)>>, <<IntTok(e)>>>> :
        i \in 1..MaxNodeId, j \in 1..MaxNodeId, e \in 1..MaxEid} \cup
    {<< >>}

(***************************************************************************)
(* CSV files.  A cell is its stripped text and what int() makes of it; a   *)
(* file is readable or not and holds the rows csv.reader yields.           *)
(***************************************************************************)
NumCell(n, txt) == [txt |-> txt, isint |-> TRUE, n |-> n]
TxtCell(txt) == [txt |-> txt, isint |-> FALSE, n |-> 0]

FileNames == {"a.csv", "b.csv", "c.csv", "rag.csv", "bad.csv", "hdr.csv", "none.csv"}

\* the files the path and neighbour queries are run on
PathFiles == {"tri.csv", "out.csv", "loop.csv", "ring.csv"}

FileContents(f) ==
    CASE f = "a.csv" ->   \* ,1,2 / 1,,5
           << <<TxtCell(""), NumCell(1, "1"), NumCell(2, "2")>>,
              <<NumCell(1, "1"), TxtCell(""), NumCell(5, "5")>> >>
      [] f = "b.csv" ->   \* ,1,2 / 1,0,A / 2,B,
           << <<TxtCell(""), NumCell(1, "1"), NumCell(2, "2")>>,
              <<NumCell(1, "1"), NumCell(0, "0"), TxtCell("A")>>,
              <<NumCell(2, "2"), TxtCell("B"), TxtCell("")>> >>
      [] f = "c.csv" ->   \* ,1 / -1,A
           << <<TxtCell(""), NumCell(1, "1")>>,
              <<NumCell(-1, "-1"), TxtCell("A")>> >>
      [] f = "rag.csv" -> \* ,1 / 1,A,B   (a row longer than the header)
           << <<TxtCell(""), NumCell(1, "1")>>,
              <<NumCell(1, "1"), TxtCell("A"), TxtCell("B")>> >>
      [] f = "bad.csv" -> \* ,x           (a header int() rejects)
           << <<TxtCell(""), TxtCell("x")>> >>
      [] f = "hdr.csv" -> \* a header row of one cell
           << <<TxtCell("")>> >>
      [] f = "tri.csv" -> \* ,1,2,3 / 1,,A,B / 2,,,C / 3,,,   (a triangle)
           << <<TxtCell(""), NumCell(1, "1"), NumCell(2, "2"), NumCell(3, "3")>>,
              <<NumCell(1, "1"), TxtCell(""), TxtCell("A"), TxtCell("B")>>,
              <<NumCell(2, "2"), TxtCell(""), TxtCell(""), TxtCell("C")>>,
              <<NumCell(3, "3"), TxtCell(""), TxtCell(""), TxtCell("")>> >>
      [] f = "out.csv" -> \* ,1,2 / 3,A,B   (1 and 2 joined through 3 only)
           << <<TxtCell(""), NumCell(1, "1"), NumCell(2, "2")>>,
              <<NumCell(3, "3"), TxtCell("A"), TxtCell("B")>> >>
      [] f = "loop.csv" -> \* ,1,2 / 1,A,B / 2,C,   (a self-loop, two parallel edges)
           << <<TxtCell(""), NumCell(1, "1"), NumCell(2, "2")>>,
              <<NumCell(1, "1"), TxtCell("A"), TxtCell("B")>>,
              <<NumCell(2, "2"), TxtCell("C"), TxtCell("")>> >>
      [] f = "ring.csv" -> \* ,1,2,3,4 / 1,,A,, / 2,,,,A / 4,,,A, / 5,A,,A,
           \* (1-2-4-3 among the column ids, 1-5-3 through the row id 5)
           << <<TxtCell(""), NumCell(1, "1"), NumCell(2, "2"), NumCell(3, "3"), NumCell(4, "4")>>,
              <<NumCell(1, "1"), TxtCell(""), TxtCell("A"), TxtCell(""), TxtCell("")>>,
              <<NumCell(2, "2"), TxtCell(""), TxtCell(""), TxtCell(""), TxtCell("A")>>,
              <<NumCell(4, "4"), TxtCell(""), TxtCell(""), TxtCell("A"), TxtCell("")>>,
              <<NumCell(5, "5"), TxtCell("A"), TxtCell(""), TxtCell("A"), TxtCell("")>> >>
      [] OTHER -> << >>

FileTable == [f \in FileNames \cup PathFiles |-> FileContents(f)]

FileRows(f) == FileTable[f]

FileReadable(f) == f # "none.csv"

(***************************************************************************)
(* _next_eid over an edge table ed.  It splits every key on every "_" and  *)
(* converts its two endpoints, and the sequence part of a matching key:    *)
(* a ValueError leaves through import_csv_matrix.                          *)
(***************************************************************************)
SetMax(S) == CHOOSE m \in S : \A x \in S : x <= m

next_eid_raises(ed, a, b) ==
    \E k \in DOMAIN ed :
        \/ Len(k) # 3
        \/ ~IsInt(k[1])
        \/ ~IsInt(k[2])
        \/ ({IntOf(k[1]), IntOf(k[2])} = {a, b} /\ ~IsInt(k[3]))

\* next_eid counting only the edges stored in the endpoint order (a, b)
next_eid_ordered(ed, a, b) ==
    1 + SetMax({0} \cup {IntOf(k[3]) : k \in {x \in DOMAIN ed :
                                               <<IntOf(x[1]), IntOf(x[2])>> = <<a, b>>}})

next_eid(ed, a, b) ==
    1 + SetMax({0} \cup {IntOf(k[3]) : k \in {x \in DOMAIN ed :
                                               {IntOf(x[1]), IntOf(x[2])} = {a, b}}})

(***************************************************************************)
(* import_csv_matrix.                                                      *)
(***************************************************************************)
SeqRange(q) == {q[k] : k \in 1..Len(q)}

\* the header conversions at lines 400-401 raise
HeaderRaises(rows) ==
    \/ \E k \in 2..Len(rows[1]) : ~rows[1][k].isint
    \/ \E r \in 2..Len(rows) : Len(rows[r]) = 0 \/ ~rows[r][1].isint

col_ids(rows) == [k \in 1..(Len(rows[1]) - 1) |-> rows[1][k + 1].n]
row_ids(rows) == [r \in 1..(Len(rows) - 1) |-> rows[r + 1][1].n]

\* CellLoopFrom taking a cell int() accepts for "no edge", as it takes "0"
RECURSIVE CellLoopSkipNumbers(_, _, _, _, _)
CellLoopSkipNumbers(rows, r, c, ed, added_edges) ==
    IF r > Len(rows) - 1 THEN [edges |-> ed, raised |-> FALSE, added |-> added_edges]
    ELSE IF c > Len(rows[r + 1]) - 1 THEN CellLoopSkipNumbers(rows, r + 1, 1, ed, added_edges)
    ELSE IF rows[r + 1][c + 1].txt = "" \/ rows[r + 1][c + 1].isint
    THEN CellLoopSkipNumbers(rows, r, c + 1, ed, added_edges)
    ELSE IF c > Len(col_ids(rows)) THEN [edges |-> ed, raised |-> TRUE, added |-> added_edges]
    ELSE IF next_eid_raises(ed, row_ids(rows)[r], col_ids(rows)[c])
    THEN [edges |-> ed, raised |-> TRUE, added |-> added_edges]
    ELSE CellLoopSkipNumbers(rows, r, c + 1,
                             Put(ed,
                                 make_edge_name(row_ids(rows)[r], col_ids(rows)[c],
                                                next_eid(ed, row_ids(rows)[r], col_ids(rows)[c])),
                                 rows[r + 1][c + 1].txt),
                             added_edges + 1)

\* the cell loop from cell (r, c) on, rows first, over edge table ed, with
\* added_edges so far
RECURSIVE CellLoopFrom(_, _, _, _, _)
CellLoopFrom(rows, r, c, ed, added_edges) ==
    IF r > Len(rows) - 1 THEN [edges |-> ed, raised |-> FALSE, added |-> added_edges]
    ELSE IF c > Len(rows[r + 1]) - 1 THEN CellLoopFrom(rows, r + 1, 1, ed, added_edges)
    ELSE IF rows[r + 1][c + 1].txt \in {"", "0"}
    THEN CellLoopFrom(rows, r, c + 1, ed, added_edges)
    ELSE IF c > Len(col_ids(rows)) THEN [edges |-> ed, raised |-> TRUE, added |-> added_edges]
    ELSE IF next_eid_raises(ed, row_ids(rows)[r], col_ids(rows)[c])
    THEN [edges |-> ed, raised |-> TRUE, added |-> added_edges]
    ELSE CellLoopFrom(rows, r, c + 1,
                      Put(ed,
                          make_edge_name(row_ids(rows)[r], col_ids(rows)[c],
                                         next_eid(ed, row_ids(rows)[r], col_ids(rows)[c])),
                          rows[r + 1][c + 1].txt),
                      added_edges + 1)

CellLoop(rows, r, c, ed) == CellLoopFrom(rows, r, c, ed, 0)

\* EnsureNodes registering the column header ids only
EnsureNodesColsOnly(rows) ==
    [n \in DOMAIN nodes \cup SeqRange(col_ids(rows)) |->
        IF n \in DOMAIN nodes THEN nodes[n] ELSE IntVal(n)]

\* line 406-410: every header id not yet registered becomes a node
EnsureNodes(rows) ==
    [n \in DOMAIN nodes \cup SeqRange(col_ids(rows)) \cup SeqRange(row_ids(rows)) |->
        IF n \in DOMAIN nodes THEN nodes[n] ELSE IntVal(n)]

\* the new cluster holding the row header ids as well
ImportMembersAllHeaders(rows) == SeqRange(col_ids(rows)) \cup SeqRange(row_ids(rows))

\* line 416: "nodes": set(col_ids)
ImportMembers(rows) == SeqRange(col_ids(rows))

\* ClusterOpen without the check of lines 413-414: an import into an existing
\* name replaces the cluster and adds the file's edges
ClusterOpenMerge(f, cname) ==
    Tick /\
    IF ~FileReadable(f) THEN Reply(E_INVALID)
    ELSE IF FileRows(f) = << >> \/ Len(FileRows(f)[1]) < 2 THEN Reply(E_INVALID)
    ELSE IF HeaderRaises(FileRows(f)) THEN Reply("raise")
    ELSE LET rows == FileRows(f)
             made == Put(clusters, cname,
                         [nodes |-> ImportMembers(rows), value |-> "CSV:" \o f])
             loop == CellLoop(rows, 1, 1, edges)
         IN  /\ IF edges = << >> THEN TRUE
                ELSE Cardinality(DOMAIN loop.edges) <= MaxEdges
             /\ nodes' = EnsureNodes(rows)
             /\ edges' = loop.edges
             /\ clusters' = IF loop.raised THEN made ELSE SyncDefault(made, nodes')
             /\ res' = (IF loop.raised THEN "raise" ELSE "ok")
             /\ out' = (IF loop.raised THEN NoOut ELSE [NoOut EXCEPT !.count = loop.added])
             /\ UNCHANGED current_view

ClusterOpen(f, cname) ==
    Tick /\
    IF ~FileReadable(f) THEN Reply(E_INVALID)
    ELSE IF FileRows(f) = << >> \/ Len(FileRows(f)[1]) < 2 THEN Reply(E_INVALID)
    ELSE IF HeaderRaises(FileRows(f)) THEN Reply("raise")
    ELSE IF cname \in DOMAIN clusters
    THEN /\ Result(E_EXISTS)
         /\ nodes' = EnsureNodes(FileRows(f))
         /\ UNCHANGED <<edges, clusters, current_view>>
    ELSE LET rows == FileRows(f)
             made == Put(clusters, cname,
                         [nodes |-> ImportMembers(rows), value |-> "CSV:" \o f])
             loop == CellLoop(rows, 1, 1, edges)
         IN  /\ IF edges = << >> THEN TRUE  \* a first import is explored whole
                ELSE Cardinality(DOMAIN loop.edges) <= MaxEdges
             /\ nodes' = EnsureNodes(rows)
             /\ edges' = loop.edges
             /\ clusters' = IF loop.raised THEN made ELSE SyncDefault(made, nodes')
             /\ res' = (IF loop.raised THEN "raise" ELSE "ok")
             /\ out' = (IF loop.raised THEN NoOut ELSE [NoOut EXCEPT !.count = loop.added])
             /\ UNCHANGED current_view

(***************************************************************************)
(* Global cluster commands.                                                *)
(***************************************************************************)
ClusterVals == {"A"}
\* the id lists cluster new is run with: the non-empty sets of digit words
IdLists == (SUBSET (1..MaxNodeId)) \ {{}}

ClusterList ==
    Tick /\ IF clusters = << >> THEN Reply("info") ELSE Reply("ok")

\* MissingIds stopping at the first (smallest) missing id
MissingIdsFirstOnly(ns) ==
    LET m == {n \in ns : n \notin DOMAIN nodes}
    IN  IF m = {} THEN {} ELSE {CHOOSE n \in m : \A x \in m : n <= x}

\* line 703: miss = [n for n in ns if n not in self.nodes]
MissingIds(ns) == {n \in ns : n \notin DOMAIN nodes}

\* ClusterNew without the check of line 703-705 that every id is registered
ClusterNewNoCheck(ns, cname, v) ==
    Tick /\
    IF cname \in DOMAIN clusters THEN Reply(E_EXISTS)
    ELSE /\ clusters' = Put(clusters, cname, [nodes |-> ns, value |-> v])
         /\ Result("ok")
         /\ UNCHANGED <<nodes, edges, current_view>>

\* cluster new <ids...> <name> <value>, ids a non-empty run of digit words
ClusterNew(ns, cname, v) ==
    Tick /\
    IF cname \in DOMAIN clusters THEN Reply(E_EXISTS)
    ELSE IF MissingIds(ns) # {}
         THEN /\ res' = E_NOT_FOUND
              /\ out' = [NoOut EXCEPT !.ids = MissingIds(ns)]
              /\ UNCHANGED <<nodes, edges, clusters, current_view>>
    ELSE /\ clusters' = Put(clusters, cname, [nodes |-> ns, value |-> v])
         /\ Result("ok")
         /\ UNCHANGED <<nodes, edges, current_view>>

\* ClusterRmv guarding the default cluster only, not the active isolation
ClusterRmvDefaultOnly(cname) ==
    Tick /\
    IF cname = DEFAULT_CLUSTER THEN Reply(E_FORBIDDEN)
    ELSE IF cname \notin DOMAIN clusters THEN Reply(E_NOT_FOUND)
    ELSE /\ clusters' = Restrict(clusters, DOMAIN clusters \ {cname})
         /\ Result("ok")
         /\ UNCHANGED <<nodes, edges, current_view>>

ClusterRmv(cname) ==
    Tick /\
    IF cname \in {DEFAULT_CLUSTER, current_view} THEN Reply(E_FORBIDDEN)
    ELSE IF cname \notin DOMAIN clusters THEN Reply(E_NOT_FOUND)
    ELSE /\ clusters' = Restrict(clusters, DOMAIN clusters \ {cname})
         /\ Result("ok")
         /\ UNCHANGED <<nodes, edges, current_view>>

ClusterGet(cname) ==
    Tick /\ IF cname \notin DOMAIN clusters THEN Reply(E_NOT_FOUND) ELSE Reply("ok")

\* ClusterIso creating an empty cluster for a name it does not find
ClusterIsoAutoCreate(cname) ==
    /\ Tick
    /\ clusters' = IF cname \in DOMAIN clusters THEN clusters
                   ELSE Put(clusters, cname, [nodes |-> {}, value |-> ""])
    /\ current_view' = cname
    /\ Result("ok")
    /\ UNCHANGED <<nodes, edges>>

\* cluster iso <name>
ClusterIso(cname) ==
    Tick /\
    IF cname \notin DOMAIN clusters THEN Reply(E_NOT_FOUND)
    ELSE /\ current_view' = cname
         /\ Result("ok")
         /\ UNCHANGED <<nodes, edges, clusters>>

\* cluster iso
ClusterIsoClear ==
    /\ Tick
    /\ current_view' = DEFAULT_CLUSTER
    /\ Result("ok")
    /\ UNCHANGED <<nodes, edges, clusters>>

(***************************************************************************)
(* Cluster-scoped node commands  <cluster> node ...                        *)
(***************************************************************************)
ClusterNodeList(cname) ==
    Tick /\
    IF cname \notin DOMAIN clusters THEN Reply(E_NOT_FOUND)
    ELSE IF clusters[cname].nodes = {} THEN Reply("info")
    ELSE IF clusters[cname].nodes \subseteq DOMAIN nodes THEN Reply("ok")
    ELSE Reply("raise")

\* ClusterNodeNew without the default-cluster guard of line 814
ClusterNodeNewNoGuard(cname, t) ==
    Tick /\
    IF cname \notin DOMAIN clusters THEN Reply(E_NOT_FOUND)
    ELSE IF ~IsInt(t) THEN Reply("raise")
    ELSE IF IntOf(t) \notin DOMAIN nodes THEN Reply(E_NOT_FOUND)
    ELSE IF IntOf(t) \in clusters[cname].nodes THEN Reply("info")
    ELSE /\ clusters' = [clusters EXCEPT ![cname].nodes = @ \cup {IntOf(t)}]
         /\ Result("ok")
         /\ UNCHANGED <<nodes, edges, current_view>>

ClusterNodeNew(cname, t) ==
    Tick /\
    IF cname \notin DOMAIN clusters THEN Reply(E_NOT_FOUND)
    ELSE IF ~IsInt(t) THEN Reply("raise")
    ELSE IF cname = DEFAULT_CLUSTER THEN Reply(E_FORBIDDEN)
    ELSE IF IntOf(t) \notin DOMAIN nodes THEN Reply(E_NOT_FOUND)
    ELSE IF IntOf(t) \in clusters[cname].nodes THEN Reply("info")
    ELSE /\ clusters' = [clusters EXCEPT ![cname].nodes = @ \cup {IntOf(t)}]
         /\ Result("ok")
         /\ UNCHANGED <<nodes, edges, current_view>>

ClusterNodeRmv(cname, t) ==
    Tick /\
    IF cname \notin DOMAIN clusters THEN Reply(E_NOT_FOUND)
    ELSE IF ~IsInt(t) THEN Reply("raise")
    ELSE IF cname = DEFAULT_CLUSTER THEN Reply(E_FORBIDDEN)
    ELSE IF IntOf(t) \notin clusters[cname].nodes THEN Reply(E_NOT_IN_VIEW)
    ELSE /\ clusters' = [clusters EXCEPT ![cname].nodes = @ \ {IntOf(t)}]
         /\ Result("ok")
         /\ UNCHANGED <<nodes, edges, current_view>>

ClusterNodeGet(cname, t) ==
    Tick /\
    IF cname \notin DOMAIN clusters THEN Reply(E_NOT_FOUND)
    ELSE IF ~IsInt(t) THEN Reply("raise")
    ELSE IF IntOf(t) \notin clusters[cname].nodes THEN Reply(E_NOT_IN_VIEW)
    ELSE IF IntOf(t) \in DOMAIN nodes THEN Reply("ok")
    ELSE Reply("raise")

(***************************************************************************)
(* Cluster-scoped edge commands  <cluster> edge ...                        *)
(***************************************************************************)
ClusterEdgeList(cname) ==
    Tick /\
    IF cname \notin DOMAIN clusters THEN Reply(E_NOT_FOUND)
    ELSE IF \E k \in DOMAIN edges :
              edge_in_cluster(cname, k) /\ Len(k) = 3 /\ \A p \in 1..3 : IsInt(k[p])
    THEN Reply("ok")
    ELSE Reply("info")

ClusterEdgeNew(cname, ti, tj, te, v) ==
    Tick /\
    IF cname \notin DOMAIN clusters THEN Reply(E_NOT_FOUND)
    ELSE IF ~(IsDigit(ti) /\ IsDigit(tj) /\ IsDigit(te)) THEN Reply("usage")
    ELSE IF IntOf(ti) \notin clusters[cname].nodes \/ IntOf(tj) \notin clusters[cname].nodes
    THEN Reply(E_NOT_IN_VIEW)
    ELSE IF make_edge_name(IntOf(ti), IntOf(tj), IntOf(te)) \in DOMAIN edges
    THEN Reply(E_EXISTS)
    ELSE /\ RoomFor(make_edge_name(IntOf(ti), IntOf(tj), IntOf(te)))
         /\ edges' = Put(edges, make_edge_name(IntOf(ti), IntOf(tj), IntOf(te)), v)
         /\ Result("ok")
         /\ UNCHANGED <<nodes, clusters, current_view>>

ClusterEdgeRmv(cname, tokens) ==
    Tick /\
    IF cname \notin DOMAIN clusters THEN Reply(E_NOT_FOUND)
    ELSE IF parse_edge_id(tokens).err THEN Reply(E_INVALID)
    ELSE IF parse_edge_id(tokens).name \notin DOMAIN edges THEN Reply(E_NOT_FOUND)
    ELSE IF ~edge_in_cluster(cname, parse_edge_id(tokens).name) THEN Reply(E_NOT_IN_VIEW)
    ELSE /\ edges' = Restrict(edges, DOMAIN edges \ {parse_edge_id(tokens).name})
         /\ Result("ok")
         /\ UNCHANGED <<nodes, clusters, current_view>>

ClusterEdgeGetName(cname, name) ==
    Tick /\
    IF cname \notin DOMAIN clusters THEN Reply(E_NOT_FOUND)
    ELSE IF parse_edge_id(<<name>>).err THEN Reply(E_INVALID)
    ELSE IF parse_edge_id(<<name>>).name \notin DOMAIN edges THEN Reply(E_NOT_FOUND)
    ELSE IF ~edge_in_cluster(cname, parse_edge_id(<<name>>).name) THEN Reply(E_NOT_IN_VIEW)
    ELSE Reply("ok")

ClusterEdgeGetPair(cname, ti, tj) ==
    IF IsDigit(ti) /\ IsDigit(tj)
    THEN Tick /\
         IF cname \notin DOMAIN clusters THEN Reply(E_NOT_FOUND)
         ELSE IF IntOf(ti) \notin clusters[cname].nodes
                 \/ IntOf(tj) \notin clusters[cname].nodes
         THEN Reply(E_NOT_IN_VIEW)
         ELSE IF {k \in EdgesBetween(IntOf(ti), IntOf(tj)) : edge_in_cluster(cname, k)} = {}
         THEN Reply("info")
         ELSE Reply("ok")
    ELSE ClusterEdgeGetName(cname, <<ti>>)

(***************************************************************************)
(* Neighbour and path helpers.  A returned path is the list the code       *)
(* stitches, [n0, e0, n1, ..., nk]: a sequence of items, an item being a   *)
(* node id or an edge slot that holds an edge name or None.  The order in  *)
(* which Python walks a set (graph[node], a set of edge names) or the edge *)
(* dict is not fixed by the store the model keeps, so every helper that    *)
(* walks one yields the set of all results some order produces.            *)
(***************************************************************************)
NoEdge == << >>
NodeItem(n) == [isnode |-> TRUE, n |-> n, e |-> NoEdge]
EdgeItem(e) == [isnode |-> FALSE, n |-> 0, e |-> e]

\* the orders a for loop may walk the set S in
RECURSIVE Orders(_)
Orders(S) ==
    IF S = {} THEN {<< >>}
    ELSE UNION {{<<x>> \o q : q \in Orders(S \ {x})} : x \in S}

\* the set S from its least element up, and from its greatest down
RECURSIVE Ascending(_)
Ascending(S) ==
    IF S = {} THEN << >>
    ELSE LET m == CHOOSE x \in S : \A y \in S : x <= y
         IN  <<m>> \o Ascending(S \ {m})
RECURSIVE Descending(_)
Descending(S) ==
    IF S = {} THEN << >>
    ELSE LET m == CHOOSE x \in S : \A y \in S : x >= y
         IN  <<m>> \o Descending(S \ {m})

\* the orders the for loop of this interpreter may walk the set S in
Walks(S) ==
    IF walk = WALK_ASC THEN {Ascending(S)}
    ELSE IF walk = WALK_DESC THEN {Descending(S)}
    ELSE Orders(S)

\* OtherEnd reading an edge from its first endpoint only
OtherEndForward(e, nid) ==
    IF split_edge_name(e)[1] = nid THEN {split_edge_name(e)[2]} ELSE {}

\* the other end of the edge e for nid (b if a == nid, else a if b == nid)
OtherEnd(e, nid) ==
    IF split_edge_name(e)[1] = nid THEN {split_edge_name(e)[2]}
    ELSE IF split_edge_name(e)[2] = nid THEN {split_edge_name(e)[1]}
    ELSE {}

neighbours_view(nid) ==
    UNION {OtherEnd(e, nid) : e \in {x \in DOMAIN edges : visible_edge(x)}}

neighbours_cluster(cname, nid) ==
    IF cname \notin DOMAIN clusters THEN {}
    ELSE UNION {OtherEnd(e, nid) : e \in {x \in DOMAIN edges : edge_in_cluster(cname, x)}}

\* edge_between accepting any name of the pool that touches a
edge_between_touching(a, b, edge_pool) ==
    LET touching == {e \in edge_pool : a \in EndpointSet(e)}
    IN  IF touching = {} THEN {NoEdge} ELSE touching

\* edge_between returning any joining name of the pool, whatever the walk
edge_between_unordered(a, b, edge_pool) ==
    LET joining == {e \in edge_pool : EndpointSet(e) = {a, b}}
    IN  IF joining = {} THEN {NoEdge} ELSE joining

\* what _edge_between may return: a name of the pool joining a and b (the
\* first one the walk meets), None if there is none
edge_between(a, b, edge_pool) ==
    LET joining == {e \in edge_pool : EndpointSet(e) = {a, b}}
        seq(e)  == IF Len(e) >= 3 /\ IsInt(e[3]) THEN IntOf(e[3]) ELSE 0
    IN  IF joining = {} THEN {NoEdge}
        ELSE IF walk = WALK_ASC
        THEN {CHOOSE e \in joining : \A x \in joining : seq(e) <= seq(x)}
        ELSE IF walk = WALK_DESC
        THEN {CHOOSE e \in joining : \A x \in joining : seq(e) >= seq(x)}
        ELSE joining

\* Graph following an edge only from its first endpoint to its second
GraphDirected(edges_ok, nodes_ok, n) ==
    {x \in nodes_ok : \E e \in edges_ok :
        /\ split_edge_name(e)[1] \in nodes_ok
        /\ split_edge_name(e)[2] \in nodes_ok
        /\ split_edge_name(e) = <<n, x>>}

\* graph[n] as lines 279-284 and 308-313 build it
Graph(edges_ok, nodes_ok, n) ==
    {x \in nodes_ok : \E e \in edges_ok :
        /\ split_edge_name(e)[1] \in nodes_ok
        /\ split_edge_name(e)[2] \in nodes_ok
        /\ split_edge_name(e) \in {<<n, x>>, <<x, n>>}}

\* lines 292-296: nodes and edge slots interleaved, from node i on
RECURSIVE StitchFrom(_, _, _)
StitchFrom(npath, epath, i) ==
    IF i > Len(npath) THEN << >>
    ELSE <<NodeItem(npath[i])>>
         \o (IF i <= Len(epath) THEN <<EdgeItem(epath[i])>> ELSE << >>)
         \o StitchFrom(npath, epath, i + 1)

\* the edge lists _edge_between may give for the pairs (ns[1], ns[i+1]) of a
\* node and the neighbours pushed for it, from pair i on
RECURSIVE EdgeChoices(_, _, _)
EdgeChoices(ns, i, edge_pool) ==
    IF i >= Len(ns) THEN {<< >>}
    ELSE {<<e>> \o rest : e \in edge_between(ns[1], ns[i + 1], edge_pool),
                          rest \in EdgeChoices(ns, i + 1, edge_pool)}

\* the edge lists _edge_between may give for the hops (npath[i], npath[i+1])
\* of a node path, from hop i on
RECURSIVE HopChoices(_, _, _)
HopChoices(npath, i, edge_pool) ==
    IF i >= Len(npath) THEN {<< >>}
    ELSE {<<e>> \o rest : e \in edge_between(npath[i], npath[i + 1], edge_pool),
                          rest \in HopChoices(npath, i + 1, edge_pool)}

\* Pushes leaving the loop 299-303 after the first neighbour it pushes
PushesOne(top, edges_ok, nodes_ok) ==
    LET nbrs == {x \in Graph(edges_ok, nodes_ok, top.node) :
                    \A k \in 1..Len(top.npath) : top.npath[k] # x}
    IN  IF nbrs = {} THEN {<< >>}
        ELSE UNION {{<<[node  |-> x,
                        npath |-> Append(top.npath, x),
                        epath |-> Append(top.epath, e)]>> :
                     e \in edge_between(top.node, x, edges_ok)} :
                    x \in nbrs}

\* Pushes without the test of lines 300-301 that nbr is not on the path yet
\* (the neighbours taken in ascending order)
PushesRevisiting(top, edges_ok, nodes_ok) ==
    LET nbrs == Graph(edges_ok, nodes_ok, top.node)
    IN  UNION {{[i \in 1..Len(ord) |->
                   [node  |-> ord[i],
                    npath |-> Append(top.npath, ord[i]),
                    epath |-> Append(top.epath,
                                     CHOOSE e \in edge_between(top.node, ord[i], edges_ok) :
                                        TRUE)]]} :
               ord \in {Ascending(nbrs)}}

\* the entries one pass of the loop 299-303 may push for the popped entry
Pushes(top, edges_ok, nodes_ok) ==
    LET nbrs == {x \in Graph(edges_ok, nodes_ok, top.node) :
                    \A k \in 1..Len(top.npath) : top.npath[k] # x}
    IN  UNION {{[i \in 1..Len(ord) |->
                   [node  |-> ord[i],
                    npath |-> Append(top.npath, ord[i]),
                    epath |-> Append(top.epath, ed[i])]] :
                ed \in EdgeChoices(<<top.node>> \o ord, 1, edges_ok)} :
               ord \in Walks(nbrs)}

\* all_paths_from returning as soon as one path is found
RECURSIVE all_paths_first(_, _, _, _, _)
all_paths_first(stack, paths, dst, edges_ok, nodes_ok) ==
    IF stack = << >> THEN {paths}
    ELSE LET top  == stack[Len(stack)]
             rest == SubSeq(stack, 1, Len(stack) - 1)
         IN  IF top.node = dst
             THEN {Append(paths, StitchFrom(top.npath, top.epath, 1))}
             ELSE UNION {all_paths_first(rest \o pushed, paths, dst, edges_ok, nodes_ok) :
                           pushed \in Pushes(top, edges_ok, nodes_ok)}

\* the lists _all_paths may return once its stack and paths are as given
RECURSIVE all_paths_from(_, _, _, _, _)
all_paths_from(stack, paths, dst, edges_ok, nodes_ok) ==
    IF stack = << >> THEN {paths}
    ELSE LET top  == stack[Len(stack)]
             rest == SubSeq(stack, 1, Len(stack) - 1)
         IN  IF top.node = dst
             THEN all_paths_from(rest, Append(paths, StitchFrom(top.npath, top.epath, 1)),
                                 dst, edges_ok, nodes_ok)
             ELSE UNION {all_paths_from(rest \o pushed, paths, dst, edges_ok, nodes_ok) :
                           pushed \in Pushes(top, edges_ok, nodes_ok)}

all_paths(src, dst, edges_ok, nodes_ok) ==
    all_paths_from(<<[node |-> src, npath |-> <<src>>, epath |-> << >>]>>, << >>,
                   dst, edges_ok, nodes_ok)

\* lines 321-326: the node list of the search stitched with one
\* _edge_between result per hop
ShortestStitch(npath, edges_ok) ==
    {[k \in 1..(2 * Len(npath) - 1) |->
        IF k % 2 = 1 THEN NodeItem(npath[(k + 1) \div 2]) ELSE EdgeItem(ed[k \div 2])] :
     ed \in HopChoices(npath, 1, edges_ok)}

\* shortest_path_from taking the newest entry of the queue first (queue.pop())
RECURSIVE shortest_path_lifo(_, _, _, _, _)
shortest_path_lifo(queue, seen, dst, edges_ok, nodes_ok) ==
    IF queue = << >> THEN {<< >>}
    ELSE LET head == queue[Len(queue)]
             new  == Graph(edges_ok, nodes_ok, head.node) \ seen
         IN  IF head.node = dst THEN ShortestStitch(head.npath, edges_ok)
             ELSE UNION {shortest_path_lifo(
                            SubSeq(queue, 1, Len(queue) - 1)
                               \o [i \in 1..Cardinality(new) |->
                                     [node |-> ord[i],
                                      npath |-> Append(head.npath, ord[i])]],
                            seen \cup new, dst, edges_ok, nodes_ok) :
                         ord \in Walks(new)}

\* the lists _shortest_path may return once its queue and seen are as given
RECURSIVE shortest_path_from(_, _, _, _, _)
shortest_path_from(queue, seen, dst, edges_ok, nodes_ok) ==
    IF queue = << >> THEN {<< >>}
    ELSE LET head == queue[1]
             new  == Graph(edges_ok, nodes_ok, head.node) \ seen
         IN  IF head.node = dst THEN ShortestStitch(head.npath, edges_ok)
             ELSE UNION {shortest_path_from(
                            Tail(queue) \o [i \in 1..Cardinality(new) |->
                                              [node |-> ord[i],
                                               npath |-> Append(head.npath, ord[i])]],
                            seen \cup new, dst, edges_ok, nodes_ok) :
                         ord \in Walks(new)}

shortest_path(src, dst, edges_ok, nodes_ok) ==
    shortest_path_from(<<[node |-> src, npath |-> <<src>>]>>, {src}, dst, edges_ok, nodes_ok)

\* sorted(paths, key=len): ascending length, equal lengths in their order
RECURSIVE SortedFrom(_, _)
SortedFrom(paths, lens) ==
    IF lens = {} THEN << >>
    ELSE LET m == CHOOSE x \in lens : \A y \in lens : x <= y
         IN  SelectSeq(paths, LAMBDA p : Len(p) = m) \o SortedFrom(paths, lens \ {m})

SortedByLen(paths) == SortedFrom(paths, {Len(paths[i]) : i \in 1..Len(paths)})

\* the edge pools the path commands pass
VisibleEdges == {e \in DOMAIN edges : visible_edge(e)}
ClusterEdges(cname) == {e \in DOMAIN edges : edge_in_cluster(cname, e)}

(***************************************************************************)
(* Neighbour and path commands, in the current view and cluster-scoped.    *)
(***************************************************************************)
\* a query handler assigns to no attribute of the store
Reads == UNCHANGED <<nodes, edges, clusters, current_view>>

Answer(r, ask, o) ==
    /\ res' = r
    /\ out' = [o EXCEPT !.ask = ask]
    /\ UNCHANGED <<nodes, edges, clusters, current_view>>

\* node nbr <id>
NodeNbr(t) ==
    Tick /\ Reads /\
    IF ~ViewOK \/ ~IsInt(t) THEN Reply("raise")
    ELSE IF IntOf(t) \notin visible_nodes THEN Reply(E_NOT_IN_VIEW)
    ELSE LET nb == neighbours_view(IntOf(t))
         IN  Answer(IF nb = {} THEN "info" ELSE "ok", Ask("nbr", VIEW_SCOPE, IntOf(t), 0),
                    [NoOut EXCEPT !.ids = nb])

\* node n <id>
NodeN(t) ==
    Tick /\ Reads /\
    IF ~ViewOK \/ ~IsInt(t) THEN Reply("raise")
    ELSE IF IntOf(t) \notin visible_nodes THEN Reply(E_NOT_IN_VIEW)
    ELSE Answer("ok", Ask("n", VIEW_SCOPE, IntOf(t), 0),
                [NoOut EXCEPT !.count = Cardinality(neighbours_view(IntOf(t)))])

\* node allp <src> <dst>: the paths sorted by length
NodeAllp(ts, td) ==
    Tick /\ Reads /\
    IF ~ViewOK \/ ~IsInt(ts) \/ ~IsInt(td) THEN Reply("raise")
    ELSE IF IntOf(ts) \notin visible_nodes \/ IntOf(td) \notin visible_nodes
    THEN Reply(E_NOT_IN_VIEW)
    ELSE \E paths \in all_paths(IntOf(ts), IntOf(td), VisibleEdges, visible_nodes) :
            Answer(IF paths = << >> THEN "info" ELSE "ok",
                   Ask("allp", VIEW_SCOPE, IntOf(ts), IntOf(td)),
                   [NoOut EXCEPT !.paths = SortedByLen(paths)])

\* node p <src> <dst>
NodeP(ts, td) ==
    Tick /\ Reads /\
    IF ~ViewOK \/ ~IsInt(ts) \/ ~IsInt(td) THEN Reply("raise")
    ELSE IF IntOf(ts) \notin visible_nodes \/ IntOf(td) \notin visible_nodes
    THEN Reply(E_NOT_IN_VIEW)
    ELSE \E path \in shortest_path(IntOf(ts), IntOf(td), VisibleEdges, visible_nodes) :
            Answer(IF path = << >> THEN "info" ELSE "ok",
                   Ask("p", VIEW_SCOPE, IntOf(ts), IntOf(td)),
                   [NoOut EXCEPT !.paths = IF path = << >> THEN << >> ELSE <<path>>])

\* <cluster> node nbr <id>
ClusterNodeNbr(cname, t) ==
    Tick /\ Reads /\
    IF cname \notin DOMAIN clusters THEN Reply(E_NOT_FOUND)
    ELSE IF ~IsInt(t) THEN Reply("raise")
    ELSE IF IntOf(t) \notin clusters[cname].nodes THEN Reply(E_NOT_IN_VIEW)
    ELSE LET nb == neighbours_cluster(cname, IntOf(t))
         IN  Answer(IF nb = {} THEN "info" ELSE "ok", Ask("nbr", cname, IntOf(t), 0),
                    [NoOut EXCEPT !.ids = nb])

\* <cluster> node n <id>
ClusterNodeN(cname, t) ==
    Tick /\ Reads /\
    IF cname \notin DOMAIN clusters THEN Reply(E_NOT_FOUND)
    ELSE IF ~IsInt(t) THEN Reply("raise")
    ELSE IF IntOf(t) \notin clusters[cname].nodes THEN Reply(E_NOT_IN_VIEW)
    ELSE Answer("ok", Ask("n", cname, IntOf(t), 0),
                [NoOut EXCEPT !.count = Cardinality(neighbours_cluster(cname, IntOf(t)))])

\* <cluster> node allp <src> <dst>: the paths as _all_paths returns them
ClusterNodeAllp(cname, ts, td) ==
    Tick /\ Reads /\
    IF cname \notin DOMAIN clusters THEN Reply(E_NOT_FOUND)
    ELSE IF ~IsInt(ts) \/ ~IsInt(td) THEN Reply("raise")
    ELSE IF IntOf(ts) \notin clusters[cname].nodes \/ IntOf(td) \notin clusters[cname].nodes
    THEN Reply(E_NOT_IN_VIEW)
    ELSE \E paths \in all_paths(IntOf(ts), IntOf(td), ClusterEdges(cname),
                                clusters[cname].nodes) :
            Answer(IF paths = << >> THEN "info" ELSE "ok",
                   Ask("allp", cname, IntOf(ts), IntOf(td)),
                   [NoOut EXCEPT !.paths = paths])

\* <cluster> node p <src> <dst>
ClusterNodeP(cname, ts, td) ==
    Tick /\ Reads /\
    IF cname \notin DOMAIN clusters THEN Reply(E_NOT_FOUND)
    ELSE IF ~IsInt(ts) \/ ~IsInt(td) THEN Reply("raise")
    ELSE IF IntOf(ts) \notin clusters[cname].nodes \/ IntOf(td) \notin clusters[cname].nodes
    THEN Reply(E_NOT_IN_VIEW)
    ELSE \E path \in shortest_path(IntOf(ts), IntOf(td), ClusterEdges(cname),
                                   clusters[cname].nodes) :
            Answer(IF path = << >> THEN "info" ELSE "ok",
                   Ask("p", cname, IntOf(ts), IntOf(td)),
                   [NoOut EXCEPT !.paths = IF path = << >> THEN << >> ELSE <<path>>])

(***************************************************************************)
(* A command line no handler accepts: an empty line, an unknown category   *)
(* or sub-command, a wrong number of words.                                *)
(***************************************************************************)
Malformed(r) == Tick /\ r \in {E_INVALID, "usage"} /\ Reply(r)

Next ==
    \/ NodeList
    \/ \E t \in IdToks, v \in Vals : NodeNew(t, v)
    \/ \E t \in IdToks : NodeGet(t)
    \/ \E t \in IdToks, v \in Vals : NodeUp(t, v)
    \/ \E t \in IdToks : NodeRmv(t)
    \/ EdgeList
    \/ \E ti \in PairToks, tj \in PairToks, te \in EidToks, v \in NewVals : EdgeNew(ti, tj, te, v)
    \/ \E name \in LookupNames : EdgeGetName(name)
    \/ \E ti \in PairToks, tj \in PairToks : EdgeGetPair(ti, tj)
    \/ \E tokens \in RmvArgs : EdgeRmv(tokens)
    \/ \E ti \in PairToks, tj \in PairToks, v \in UpVals : EdgeUpPair(ti, tj, v)
    \/ \E name \in NameToks, v \in UpVals : EdgeUpName(name, v)
    \/ \E f \in FileNames, cname \in ClusterNames : ClusterOpen(f, cname)
    \/ ClusterList
    \/ \E ns \in IdLists, cname \in ClusterNames, v \in ClusterVals :
          ClusterNew(ns, cname, v)
    \/ \E cname \in ClusterNames : ClusterRmv(cname)
    \/ \E cname \in ClusterNames : ClusterGet(cname)
    \/ \E cname \in ClusterNames : ClusterIso(cname)
    \/ ClusterIsoClear
    \/ \E cname \in ClusterNames : ClusterNodeList(cname)
    \/ \E cname \in ClusterNames, t \in IdToks : ClusterNodeNew(cname, t)
    \/ \E cname \in ClusterNames, t \in IdToks : ClusterNodeRmv(cname, t)
    \/ \E cname \in ClusterNames, t \in IdToks : ClusterNodeGet(cname, t)
    \/ \E cname \in ClusterNames : ClusterEdgeList(cname)
    \/ \E cname \in ClusterNames, ti \in PairToks, tj \in PairToks, te \in {IntTok(1)}, v \in NewVals :
          ClusterEdgeNew(cname, ti, tj, te, v)
    \/ \E cname \in ClusterNames, tokens \in RmvArgs : ClusterEdgeRmv(cname, tokens)
    \/ \E cname \in ClusterNames, name \in LookupNames : ClusterEdgeGetName(cname, name)
    \/ \E cname \in ClusterNames, ti \in PairToks, tj \in PairToks :
          ClusterEdgeGetPair(cname, ti, tj)
    \/ \E r \in {E_INVALID, "usage"} : Malformed(r)

Spec == Init /\ [][Next]_vars

(***************************************************************************)
(* The sessions the neighbour and path queries are checked on: a graph is  *)
(* imported from one of PathFiles into cluster c1, the view may be         *)
(* isolated on c1 and c1 may lose members, and queries are asked.          *)
(***************************************************************************)
IntQueryToks == {IntTok(n) : n \in 1..MaxPathId}
QueryToks == IntQueryToks \cup {WordTok}
QueryClusters == {DEFAULT_CLUSTER, "c1"}

PathNext ==
    \/ \E f \in PathFiles : ClusterOpen(f, "c1")
    \/ ClusterIso("c1")
    \/ \E t \in QueryToks : ClusterNodeRmv("c1", t)
    \/ \E t \in QueryToks : NodeNbr(t)
    \/ \E t \in QueryToks : NodeN(t)
    \/ \E ts \in QueryToks, td \in QueryToks : NodeAllp(ts, td)
    \/ \E ts \in QueryToks, td \in QueryToks : NodeP(ts, td)
    \/ \E c \in QueryClusters, t \in QueryToks : ClusterNodeNbr(c, t)
    \/ \E c \in QueryClusters, t \in QueryToks : ClusterNodeN(c, t)
    \/ \E c \in QueryClusters, ts \in QueryToks, td \in QueryToks : ClusterNodeAllp(c, ts, td)
    \/ \E c \in QueryClusters, ts \in QueryToks, td \in QueryToks : ClusterNodeP(c, ts, td)

PathSpec == Init /\ [][PathNext]_vars

(***************************************************************************)
(* The sessions the view-scoped commands are checked on: a graph is        *)
(* imported into cluster c1, whose members are the column ids only, the    *)
(* view may be isolated on c1, and the node and edge commands of the view  *)
(* are issued with well-formed ids, members of c1 or not.                  *)
(***************************************************************************)
ViewFiles == {"out.csv", "c.csv", "tri.csv"}
ViewIds == (1..MaxPathId) \cup {-1}
ViewToks == {IntTok(n) : n \in ViewIds}
ViewNames == DOMAIN edges \cup {make_edge_name(i, j, 1) : i \in ViewIds, j \in ViewIds}

ViewNext ==
    \/ \E f \in ViewFiles : ClusterOpen(f, "c1")
    \/ ClusterIso("c1")
    \/ \E t \in ViewToks : NodeGet(t)
    \/ \E t \in ViewToks, v \in UpVals : NodeUp(t, v)
    \/ \E t \in ViewToks : NodeRmv(t)
    \/ \E t \in ViewToks : NodeNbr(t)
    \/ \E t \in ViewToks : NodeN(t)
    \/ \E ts \in ViewToks, td \in ViewToks : NodeAllp(ts, td)
    \/ \E ts \in ViewToks, td \in ViewToks : NodeP(ts, td)
    \/ \E ti \in ViewToks, tj \in ViewToks, te \in EidToks, v \in NewVals : EdgeNew(ti, tj, te, v)
    \/ \E name \in ViewNames : EdgeGetName(name)
    \/ \E ti \in ViewToks, tj \in ViewToks : EdgeGetPair(ti, tj)
    \/ \E ti \in ViewToks, tj \in ViewToks, v \in UpVals : EdgeUpPair(ti, tj, v)
    \/ \E name \in ViewNames, v \in UpVals : EdgeUpName(name, v)

ViewSpec == Init /\ [][ViewNext]_vars

(***************************************************************************)
(* The sessions `node new` under isolation is checked on, one command      *)
(* longer: c.csv is imported as a cluster, further clusters are made of    *)
(* registered nodes, the view is isolated on one or back on all, and nodes *)
(* are created.                                                            *)
(***************************************************************************)
IsoClusters == {"c1", "c2"}

IsoInit ==
    /\ Constructed
    /\ session_len = MaxCmds + 1
    /\ walk = WALK_ANY

IsoNext ==
    \/ \E cname \in IsoClusters : ClusterOpen("c.csv", cname)
    \/ \E ns \in IdLists, cname \in IsoClusters, v \in ClusterVals : ClusterNew(ns, cname, v)
    \/ \E cname \in IsoClusters : ClusterIso(cname)
    \/ ClusterIsoClear
    \/ \E t \in IdToks, v \in NewVals : NodeNew(t, v)

IsoSpec == IsoInit /\ [][IsoNext]_vars

(***************************************************************************)
(* The two searches pass by pass, for `node allp` and `node p` in the      *)
(* view.  A command that gets as far as the search starts it; every pass   *)
(* of the while loop of _all_paths (288-303) or _shortest_path (317-330)   *)
(* is a step; the handler replies when the search returns.  handle() is    *)
(* synchronous, so no other command is read while a search runs, and a     *)
(* running loop is always continued.                                       *)
(***************************************************************************)
Idle == search.pc = "idle"

\* node allp <src> <dst>, up to the call of _all_paths
BeginAllp(ts, td) ==
    Idle /\ Typed /\ Reads /\
    IF ~ViewOK \/ ~IsInt(ts) \/ ~IsInt(td)
    THEN Result("raise") /\ UNCHANGED search
    ELSE IF IntOf(ts) \notin visible_nodes \/ IntOf(td) \notin visible_nodes
    THEN Result(E_NOT_IN_VIEW) /\ UNCHANGED search
    ELSE /\ search' = [NoSearch EXCEPT
                          !.pc = "allp", !.src = IntOf(ts), !.dst = IntOf(td),
                          !.stack = <<[node |-> IntOf(ts), npath |-> <<IntOf(ts)>>,
                                       epath |-> << >>]>>]
         /\ UNCHANGED <<res, out>>

\* one pass of `while stack:` (288-303)
StepAllp ==
    /\ search.pc = "allp"
    /\ search.stack # << >>
    /\ search.steps < MaxSteps
    /\ LET top  == search.stack[Len(search.stack)]
           rest == SubSeq(search.stack, 1, Len(search.stack) - 1)
       IN  IF top.node = search.dst
           THEN search' = [search EXCEPT
                             !.stack = rest,
                             !.paths = Append(@, StitchFrom(top.npath, top.epath, 1)),
                             !.steps = @ + 1]
           ELSE \E pushed \in Pushes(top, VisibleEdges, visible_nodes) :
                   search' = [search EXCEPT !.stack = rest \o pushed, !.steps = @ + 1]
    /\ UNCHANGED <<nodes, edges, clusters, current_view, res, out, ncmds, session_len, walk>>

\* the stack is empty: _all_paths returns (304) and the handler replies (565)
EndAllp ==
    /\ search.pc = "allp"
    /\ search.stack = << >>
    /\ res' = (IF search.paths = << >> THEN "info" ELSE "ok")
    /\ out' = [NoOut EXCEPT !.paths = SortedByLen(search.paths),
                            !.ask = Ask("allp", VIEW_SCOPE, search.src, search.dst)]
    /\ search' = [NoSearch EXCEPT !.steps = search.steps]
    /\ UNCHANGED <<nodes, edges, clusters, current_view, ncmds, session_len, walk>>

\* node p <src> <dst>, up to the call of _shortest_path
BeginP(ts, td) ==
    Idle /\ Typed /\ Reads /\
    IF ~ViewOK \/ ~IsInt(ts) \/ ~IsInt(td)
    THEN Result("raise") /\ UNCHANGED search
    ELSE IF IntOf(ts) \notin visible_nodes \/ IntOf(td) \notin visible_nodes
    THEN Result(E_NOT_IN_VIEW) /\ UNCHANGED search
    ELSE /\ search' = [NoSearch EXCEPT
                          !.pc = "p", !.src = IntOf(ts), !.dst = IntOf(td),
                          !.queue = <<[node |-> IntOf(ts), npath |-> <<IntOf(ts)>>]>>,
                          !.seen = {IntOf(ts)}]
         /\ UNCHANGED <<res, out>>

\* one pass of `while queue:` (317-330); at dst the search returns the
\* stitched path and the handler replies (576)
StepP ==
    /\ search.pc = "p"
    /\ search.queue # << >>
    /\ search.steps < MaxSteps
    /\ LET head == search.queue[1]
           new  == Graph(VisibleEdges, visible_nodes, head.node) \ search.seen
       IN  IF head.node = search.dst
           THEN \E path \in ShortestStitch(head.npath, VisibleEdges) :
                   /\ res' = "ok"
                   /\ out' = [NoOut EXCEPT !.paths = <<path>>,
                                           !.ask = Ask("p", VIEW_SCOPE, search.src, search.dst)]
                   /\ search' = [NoSearch EXCEPT !.steps = search.steps + 1]
           ELSE \E ord \in Walks(new) :
                   /\ search' = [search EXCEPT
                                    !.queue = Tail(@) \o [i \in 1..Cardinality(new) |->
                                                           [node |-> ord[i],
                                                            npath |-> Append(head.npath, ord[i])]],
                                    !.seen = @ \cup new,
                                    !.steps = @ + 1]
                   /\ UNCHANGED <<res, out>>
    /\ UNCHANGED <<nodes, edges, clusters, current_view, ncmds, session_len, walk>>

\* the queue is empty: _shortest_path returns [] (331) and the handler replies
EndP ==
    /\ search.pc = "p"
    /\ search.queue = << >>
    /\ res' = "info"
    /\ out' = [NoOut EXCEPT !.ask = Ask("p", VIEW_SCOPE, search.src, search.dst)]
    /\ search' = [NoSearch EXCEPT !.steps = search.steps]
    /\ UNCHANGED <<nodes, edges, clusters, current_view, ncmds, session_len, walk>>

\* the running search goes on
SearchStep == StepAllp \/ EndAllp \/ StepP \/ EndP

SearchNext ==
    \/ Idle /\ \E f \in PathFiles : ClusterOpen(f, "c1")
    \/ Idle /\ ClusterIso("c1")
    \/ \E ts \in QueryToks, td \in QueryToks : BeginAllp(ts, td)
    \/ \E ts \in QueryToks, td \in QueryToks : BeginP(ts, td)
    \/ StepAllp
    \/ EndAllp
    \/ StepP
    \/ EndP

SearchSpec == Init /\ [][SearchNext]_vars /\ WF_vars(SearchStep)

(***************************************************************************)
(* The sessions of the path queries run by one interpreter process, which  *)
(* walks equal collections in the same order every time: either of two     *)
(* fixed orders, chosen when the process starts.                           *)
(***************************************************************************)
RepeatInit ==
    /\ Constructed
    /\ session_len = MaxCmds
    /\ walk \in {WALK_ASC, WALK_DESC}

RepeatSpec == RepeatInit /\ [][PathNext]_vars

(***************************************************************************)
(* Properties.                                                             *)
(***************************************************************************)
Registered == DOMAIN nodes

\* C1: a successful `node rmv a` leaves a unregistered, on no edge's decoded
\* endpoint pair and in no cluster's membership (the default and the active
\* isolation included).
C1_NodeRmvCascades ==
    [][\A t \in IdToks :
         (res' = "ok" /\ NodeRmv(t)) =>
            /\ IntOf(t) \notin DOMAIN nodes'
            /\ \A k \in DOMAIN edges' : IntOf(t) \notin EndpointSet(k)
            /\ \A c \in DOMAIN clusters' : IntOf(t) \notin clusters'[c].nodes]_vars

\* the session `cluster open a.csv c1`, `node rmv 1`: node 1 had edge 1_2_1
\* and was a member of c1 and of the default cluster
C1_Witness ==
    /\ ncmds = 2 /\ res = "ok"
    /\ DOMAIN nodes = {2}
    /\ DOMAIN edges = {}
    /\ "c1" \in DOMAIN clusters
    /\ clusters["c1"] = [nodes |-> {2}, value |-> "CSV:a.csv"]
    /\ clusters[DEFAULT_CLUSTER].nodes = {2}

\* C2: no dangling edges: both decoded endpoints of every stored edge are
\* registered node ids.
C2_NoDanglingEdges ==
    \A k \in DOMAIN edges :
        /\ split_edge_name(k)[1] \in Registered
        /\ split_edge_name(k)[2] \in Registered

\* an imported edge with a negative endpoint beside one made by `edge new`
C2_Witness ==
    /\ DOMAIN edges = {make_edge_name(-1, 1, 1), make_edge_name(1, 1, 1)}
    /\ DOMAIN nodes = {-1, 1}

\* C3: a command that ends in an [ERROR] result leaves the node table, the
\* edge table, every cluster and the current isolation as they were.
C3_ErrorLeavesStateUnchanged ==
    [][IsError(res') => UNCHANGED <<nodes, edges, clusters, current_view>>]_vars

\* C4: the stored membership of the default cluster is the set of all
\* registered node ids.
C4_DefaultClusterIsAllNodes ==
    clusters[DEFAULT_CLUSTER].nodes = Registered

\* C5: the membership of every non-default cluster is a subset of the
\* registered node ids.
C5_ClusterMembersRegistered ==
    \A c \in DOMAIN clusters \ {DEFAULT_CLUSTER} : clusters[c].nodes \subseteq Registered

\* the session `cluster open c.csv c1`, `cluster iso c1`, `node new 2 <v>`:
\* c1 started as the column ids {1} of three registered nodes
C5_Witness ==
    /\ ncmds = 3 /\ res = "ok"
    /\ current_view = "c1"
    /\ "c1" \in DOMAIN clusters
    /\ clusters["c1"].nodes = {1, 2}
    /\ DOMAIN nodes = {-1, 1, 2}

\* C6: handle() returns a result for every command and never raises.
C6_HandleNeverRaises == res # "raise"

\* C7: for a name that is no key of the edge table, `edge get`, `edge up`
\* and `edge rmv` by name return an error and leave the edge table as it was.
C7_UnknownEdgeIsAnError ==
    [][\A name \in NameToks :
         name \notin DOMAIN edges =>
            /\ EdgeGetName(name) => (IsError(res') /\ edges' = edges)
            /\ EdgeRmv(<<name>>) => (IsError(res') /\ edges' = edges)
            /\ \A v \in Vals :
                 EdgeUpName(name, v) => (IsError(res') /\ edges' = edges)]_vars

\* C8: the default cluster is protected: `cluster rmv` of the default or of
\* the active isolation cluster is refused (an error result, nothing removed
\* or written), and so are `_all_ node new <id>` and `_all_ node rmv <id>`
\* for every integer id; for a word that is no integer they do not succeed
\* either and leave every cluster's membership as it was.  Stated step by
\* step: a step that is not a refusal is none of these commands, except the
\* failed conversion of a non-integer id.
C8_DefaultClusterProtected ==
    [][LET refused == IsError(res') /\ UNCHANGED <<nodes, edges, clusters>>
       IN  \/ refused
           \/ /\ \A c \in {DEFAULT_CLUSTER, current_view} : ~ClusterRmv(c)
              /\ \A t \in IdToks :
                   (ClusterNodeNew(DEFAULT_CLUSTER, t) \/ ClusterNodeRmv(DEFAULT_CLUSTER, t)) =>
                      (~IsInt(t) /\ res' # "ok" /\ clusters' = clusters)]_vars

\* a forbidden-operation error produced while c1 is the active isolation
C8_Witness ==
    /\ ncmds = 3 /\ res = E_FORBIDDEN
    /\ current_view = "c1"
    /\ "c1" \in DOMAIN clusters

\* C9: the current isolation always names a cluster of the cluster table.
C9_IsolationExists == current_view \in DOMAIN clusters

\* an active isolation beside a second non-default cluster
C9_Witness ==
    /\ current_view = "c2"
    /\ DOMAIN clusters = {DEFAULT_CLUSTER, "c1", "c2"}

\* C10: `cluster iso <name>` and `cluster iso` change nothing but the
\* current isolation, whether they succeed or fail.
C10_IsoChangesOnlyTheView ==
    [][((\E c \in ClusterNames : ClusterIso(c)) \/ ClusterIsoClear) =>
          UNCHANGED <<nodes, edges, clusters>>]_vars

\* the session `cluster open a.csv c1`, `cluster iso c1`
C10_Witness ==
    /\ ncmds = 2 /\ res = "ok"
    /\ current_view = "c1"
    /\ DOMAIN nodes = {1, 2}
    /\ DOMAIN edges = {make_edge_name(1, 2, 1)}
    /\ clusters["c1"] = [nodes |-> {1, 2}, value |-> "CSV:a.csv"]

Adjacent(E, N, a) == {b \in N : \E e \in E : EndpointSet(e) = {a, b}}

RECURSIVE Within(_, _, _, _)
Within(E, N, src, k) ==
    IF k = 0 THEN {src}
    ELSE LET near == Within(E, N, src, k - 1)
         IN  near \cup UNION {Adjacent(E, N, x) : x \in near}

Reachable(E, N, src, dst) == dst \in Within(E, N, src, Cardinality(N))

\* the least number of hops from src to dst, -1 if there is no route
Distance(E, N, src, dst) ==
    IF ~Reachable(E, N, src, dst) THEN -1
    ELSE CHOOSE k \in 0..Cardinality(N) :
            /\ dst \in Within(E, N, src, k)
            /\ \A j \in 0..(k - 1) : dst \notin Within(E, N, src, j)

Hops(p) == (Len(p) - 1) \div 2
NodesOf(p) == [i \in 1..((Len(p) + 1) \div 2) |-> p[2 * i - 1].n]

\* the pool a query of the given scope runs on
AskedEdges == IF out.ask.scope = VIEW_SCOPE THEN VisibleEdges ELSE ClusterEdges(out.ask.scope)
AskedNodes == IF out.ask.scope = VIEW_SCOPE THEN visible_nodes ELSE clusters[out.ask.scope].nodes

\* the reply of a shortest-path command for src, dst over the pool E, N
ShortestAnswer(src, dst, E, N) ==
    IF ~Reachable(E, N, src, dst) THEN res = "info" /\ out.paths = << >>
    ELSE /\ res = "ok"
         /\ Len(out.paths) = 1
         /\ LET p == out.paths[1]
            IN  /\ Len(p) % 2 = 1
                /\ p[1] = NodeItem(src)
                /\ p[Len(p)] = NodeItem(dst)
                /\ \A i \in 1..Hops(p) : NodesOf(p)[i + 1] \in Adjacent(E, N, NodesOf(p)[i])
                /\ Hops(p) = Distance(E, N, src, dst)

\* C13: for all visible src and dst, `node p` and `<cluster> node p` return
\* a path from src to dst whose hop count is the graph distance between them
\* in the undirected projection of the eligible edges, and return the empty
\* result ("no path") exactly when dst is unreachable from src.
C13_ShortestPathIsDistance ==
    out.ask.cmd = "p" => ShortestAnswer(out.ask.src, out.ask.dst, AskedEdges, AskedNodes)

\* `node p 1 3` after ring.csv was imported: the two-hop route through 5,
\* not the three-hop route 1-2-4-3
C13_Witness ==
    /\ out.ask = Ask("p", VIEW_SCOPE, 1, 3)
    /\ current_view = DEFAULT_CLUSTER
    /\ DOMAIN nodes = {1, 2, 3, 4, 5}
    /\ res = "ok"
    /\ out.paths = << <<NodeItem(1), EdgeItem(make_edge_name(5, 1, 1)), NodeItem(5),
                        EdgeItem(make_edge_name(5, 3, 1)), NodeItem(3)>> >>

\* shortest paths between a and b over the pool E, N have one hop count in
\* both directions (an empty result has length 0 in both)
SymmetricOver(E, N) ==
    \A a \in N, b \in N :
       a < b => \A p \in shortest_path(a, b, E, N), q \in shortest_path(b, a, E, N) :
                   Len(p) = Len(q)

\* C14: in every reachable state and for all nodes a and b, the shortest path
\* from a to b and the one from b to a have the same hop count (both empty
\* or of equal length), whichever endpoint the edge names store first.
C14_ShortestPathSymmetric ==
    /\ ViewOK => SymmetricOver(VisibleEdges, visible_nodes)
    /\ \A c \in DOMAIN clusters : SymmetricOver(ClusterEdges(c), clusters[c].nodes)

\* `node p 1 2` after out.csv was imported: both edges are stored with 3
\* first, and the path runs 1 -> 3 against the stored order
C14_Witness ==
    /\ out.ask = Ask("p", VIEW_SCOPE, 1, 2)
    /\ DOMAIN edges = {make_edge_name(3, 1, 1), make_edge_name(3, 2, 1)}
    /\ res = "ok"
    /\ out.paths = << <<NodeItem(1), EdgeItem(make_edge_name(3, 1, 1)), NodeItem(3),
                        EdgeItem(make_edge_name(3, 2, 1)), NodeItem(2)>> >>
    /\ shortest_path(2, 1, VisibleEdges, visible_nodes)
          = { <<NodeItem(2), EdgeItem(make_edge_name(3, 2, 1)), NodeItem(3),
                EdgeItem(make_edge_name(3, 1, 1)), NodeItem(1)>> }

\* the node sequences of the simple paths from src to dst in the
\* undirected projection of the pool E over N
SimplePaths(E, N, src, dst) ==
    {q \in UNION {[1..k -> N] : k \in 1..Cardinality(N)} :
        /\ q[1] = src
        /\ q[Len(q)] = dst
        /\ \A i, j \in 1..Len(q) : q[i] = q[j] => i = j
        /\ \A i \in 1..(Len(q) - 1) : q[i + 1] \in Adjacent(E, N, q[i])}

\* C15: an all-simple-paths command returns exactly the simple paths from
\* src to dst in the undirected projection of the eligible edges: every
\* returned path starts at src, ends at dst, repeats no node and steps along
\* projection edges; every such node sequence is returned exactly once;
\* src = dst yields the single path [src]; no path yields the empty result.
C15_AllPathsExact ==
    out.ask.cmd = "allp" =>
       LET want == SimplePaths(AskedEdges, AskedNodes, out.ask.src, out.ask.dst)
       IN  /\ \A i \in 1..Len(out.paths) : Len(out.paths[i]) % 2 = 1
           /\ {NodesOf(out.paths[i]) : i \in 1..Len(out.paths)} = want
           /\ Len(out.paths) = Cardinality(want)
           /\ res = (IF want = {} THEN "info" ELSE "ok")
           /\ out.ask.src = out.ask.dst => out.paths = << <<NodeItem(out.ask.src)>> >>

\* `node allp 1 3` after ring.csv was imported: the routes 1-5-3 and 1-2-4-3
C15_Witness ==
    /\ out.ask = Ask("allp", VIEW_SCOPE, 1, 3)
    /\ current_view = DEFAULT_CLUSTER
    /\ res = "ok"
    /\ {NodesOf(out.paths[i]) : i \in 1..Len(out.paths)} = {<<1, 5, 3>>, <<1, 2, 4, 3>>}
    /\ Len(out.paths) = 2

\* C16: the paths an all-simple-paths command lists (`node allp` and
\* `<cluster> node allp`) are in ascending order of length: no path is
\* listed before a strictly shorter one.
C16_AllpOrderedByLength ==
    out.ask.cmd = "allp" =>
       \A i, j \in 1..Len(out.paths) : i < j => Len(out.paths[i]) <= Len(out.paths[j])

\* p is [n0, e0, n1, ..., nk]: nodes at the odd places, at every even place
\* a key of the edge table taken from the pool E whose endpoints are the two
\* nodes next to it
WellFormed(p, E) ==
    /\ Len(p) % 2 = 1
    /\ \A k \in 1..Len(p) :
          IF k % 2 = 1 THEN p[k].isnode
          ELSE /\ ~p[k].isnode
               /\ p[k].e # NoEdge
               /\ p[k].e \in DOMAIN edges
               /\ p[k].e \in E
               /\ EndpointSet(p[k].e) = {p[k - 1].n, p[k + 1].n}

\* C17: every path a path query returns is a well-formed interleaving
\* [n0, e0, n1, ..., nk] with k edge names for k+1 nodes; each e_i is a key
\* of the edge table, from the eligible pool, whose endpoint set is
\* {n_i, n_i+1}; no edge slot is empty (None).
C17_PathsWellFormed ==
    out.ask.cmd \in {"p", "allp"} =>
       \A i \in 1..Len(out.paths) : WellFormed(out.paths[i], AskedEdges)

\* `node p 1 2` after loop.csv was imported, where 1_2_1 and 2_1_2 both join
\* 1 and 2 and 1_1_1 is a self-loop
C17_Witness ==
    /\ out.ask = Ask("p", VIEW_SCOPE, 1, 2)
    /\ DOMAIN edges = {make_edge_name(1, 1, 1), make_edge_name(1, 2, 1), make_edge_name(2, 1, 2)}
    /\ res = "ok"
    /\ out.paths = << <<NodeItem(1), EdgeItem(make_edge_name(1, 2, 1)), NodeItem(2)>> >>

\* the cluster a query is confined to: the one named before `node`, or the
\* one the view is isolated on
ConfinedTo == IF out.ask.scope = VIEW_SCOPE THEN current_view ELSE out.ask.scope

\* C18: neighbour and path queries are confined to the view: under isolation
\* on a cluster c, or in a `<c> node ...` command, every node of a returned
\* path or neighbour set is a member of c and every edge name of a returned
\* path has both endpoints in c, also when a shorter route passes outside c.
C18_QueriesConfined ==
    (/\ out.ask.cmd \in {"nbr", "p", "allp"}
     /\ ~(out.ask.scope = VIEW_SCOPE /\ current_view = DEFAULT_CLUSTER))
    => /\ ConfinedTo \in DOMAIN clusters
       /\ out.ids \subseteq clusters[ConfinedTo].nodes
       /\ \A i \in 1..Len(out.paths) : \A k \in 1..Len(out.paths[i]) :
             LET item == out.paths[i][k]
             IN  IF item.isnode THEN item.n \in clusters[ConfinedTo].nodes
                 ELSE /\ item.e \in DOMAIN edges
                      /\ EndpointSet(item.e) \subseteq clusters[ConfinedTo].nodes

\* `node p 1 3` under isolation on c1 = {1,2,3,4} of ring.csv: the answer is
\* the three-hop route inside c1 although 1-5-3 has two hops in the whole graph
C18_Witness ==
    /\ out.ask = Ask("p", VIEW_SCOPE, 1, 3)
    /\ current_view = "c1"
    /\ clusters["c1"].nodes = {1, 2, 3, 4}
    /\ res = "ok"
    /\ Len(out.paths) = 1
    /\ NodesOf(out.paths[1]) = <<1, 2, 4, 3>>
    /\ Distance(DOMAIN edges, DOMAIN nodes, 1, 3) = 2

\* C19: after a successful `cluster open <file> <name>` the membership of
\* the new cluster is exactly the set of column-header ids; every row-header
\* id is a registered node, member or not.
C19_ImportMembershipIsColumnIds ==
    [][(res' = "ok" /\ clusters' # clusters) =>
          \A f \in FileNames, c \in ClusterNames :
             ClusterOpen(f, c) =>
                /\ c \in DOMAIN clusters'
                /\ clusters'[c].nodes = {FileRows(f)[1][k].n : k \in 2..Len(FileRows(f)[1])}
                /\ \A r \in 2..Len(FileRows(f)) : FileRows(f)[r][1].n \in DOMAIN nodes']_vars

\* the session `cluster open c.csv c1` (header `,1`, row `-1,A`): the row id
\* -1 is registered and is no member of c1
C19_Witness ==
    /\ ncmds = 1 /\ res = "ok"
    /\ DOMAIN nodes = {-1, 1}
    /\ "c1" \in DOMAIN clusters
    /\ clusters["c1"] = [nodes |-> {1}, value |-> "CSV:c.csv"]

\* the sequence id of a well-formed edge name
EidOf(k) == IF Len(k) = 3 /\ IsInt(k[3]) THEN IntOf(k[3]) ELSE 0

\* C20: an import keeps every edge that existed before it, with its value,
\* and between every unordered endpoint pair the edges it adds carry the
\* sequence ids m+1 .. m+n, one each, where m is the greatest sequence id
\* the pair had before the import (0 if none) and n the number of edges
\* added for the pair, in either endpoint order.  Stated step by step: a
\* step that changes the edge table otherwise is no import.
C20_ImportUsesFreshSeqIds ==
    [][LET kept  == \A k \in DOMAIN edges : k \in DOMAIN edges' /\ edges'[k] = edges[k]
           added == DOMAIN edges' \ DOMAIN edges
           fresh == \A k \in added :
                      LET old == {x \in DOMAIN edges : EndpointSet(x) = EndpointSet(k)}
                          new == {x \in added : EndpointSet(x) = EndpointSet(k)}
                          m   == SetMax({0} \cup {EidOf(x) : x \in old})
                      IN  /\ {EidOf(x) : x \in new} = (m + 1)..(m + Cardinality(new))
                          /\ \A x \in new : EidOf(x) = EidOf(k) => x = k
       IN  \/ edges' = edges
           \/ kept /\ fresh
           \/ \A f \in FileNames, c \in ClusterNames : ~ClusterOpen(f, c)]_vars

\* the session `edge new 2 1 1 A` (nodes 1, 2 registered before) then
\* `cluster open a.csv <name>`: cell (1,2) becomes 1_2_2 beside 2_1_1
C20_Witness ==
    /\ DOMAIN edges = {make_edge_name(2, 1, 1), make_edge_name(1, 2, 2)}
    /\ edges[make_edge_name(2, 1, 1)] = "A"
    /\ edges[make_edge_name(1, 2, 2)] = "5"

\* the cells of a matrix that are neither empty nor "0", as <<row, column>>
\* positions below and right of the headers
EdgeCells(rows) ==
    {rc \in (1..(Len(rows) - 1)) \X (1..(Len(rows[1]) - 1)) :
        /\ rc[2] <= Len(rows[rc[1] + 1]) - 1
        /\ rows[rc[1] + 1][rc[2] + 1].txt \notin {"", "0"}}

Bijections(S, T) ==
    {m \in [S -> T] : /\ \A x, y \in S : m[x] = m[y] => x = y
                      /\ \A t \in T : \E x \in S : m[x] = t}

\* C21: after a successful import the edges added to the edge table
\* correspond one-to-one to the cells that are neither empty nor "0": each
\* such cell (row id r, column id c, label v) yields one new edge between r
\* and c with value v, no other edge is added (and none is lost or changed),
\* and the edge count the command reports is the number of such cells.  The
\* cluster a successful import creates is new (C19), so the imports into
\* the clusters that appear in the step are the ones to look at.
C21_ImportRoundTrip ==
    [][\A c \in DOMAIN clusters' \ DOMAIN clusters, f \in FileNames :
          (res' = "ok" /\ ClusterOpen(f, c)) =>
             LET rows  == FileRows(f)
                 cells == EdgeCells(rows)
                 added == DOMAIN edges' \ DOMAIN edges
             IN  /\ \A k \in DOMAIN edges : k \in DOMAIN edges' /\ edges'[k] = edges[k]
                 /\ \E m \in Bijections(cells, added) :
                       \A rc \in cells :
                          /\ Len(m[rc]) = 3
                          /\ split_edge_name(m[rc]) = <<row_ids(rows)[rc[1]], col_ids(rows)[rc[2]]>>
                          /\ edges'[m[rc]] = rows[rc[1] + 1][rc[2] + 1].txt
                 /\ out'.count = Cardinality(cells)]_vars

\* `cluster open b.csv c1` in a fresh session: of the cells 0, A, B, (empty)
\* the two labels became edges and the reply counts 2
C21_Witness ==
    /\ ncmds = 1 /\ res = "ok"
    /\ out.count = 2
    /\ DOMAIN edges = {make_edge_name(1, 2, 1), make_edge_name(2, 1, 2)}
    /\ edges[make_edge_name(1, 2, 1)] = "A"
    /\ edges[make_edge_name(2, 1, 2)] = "B"
    /\ "c1" \in DOMAIN clusters /\ clusters["c1"].value = "CSV:b.csv"

\* C22: `cluster open` on a cluster name that already exists, the default
\* cluster's name included, fails (an error reply, or the exception the
\* header conversion raises before the name is looked at, which the prompt
\* loop reports as an error); that cluster's membership and value are the
\* same afterwards and the edge table is the same.
C22_OpenNeverMerges ==
    [][\A cname \in DOMAIN clusters :
          \/ /\ IsError(res') \/ res' = "raise"
             /\ clusters'[cname] = clusters[cname]
             /\ edges' = edges
          \/ \A f \in FileNames : ~ClusterOpen(f, cname)]_vars

\* `cluster open b.csv c1` then `cluster open a.csv c1`: the second is
\* refused and c1 is still the cluster of b.csv with b.csv's two edges
C22_Witness ==
    /\ ncmds = 2 /\ res = E_EXISTS
    /\ "c1" \in DOMAIN clusters
    /\ clusters["c1"] = [nodes |-> {1, 2}, value |-> "CSV:b.csv"]
    /\ DOMAIN edges = {make_edge_name(1, 2, 1), make_edge_name(2, 1, 2)}

\* an edge name that decodes to two integer endpoints and a third part
Decodes(k) == Len(k) = 3 /\ IsInt(k[1]) /\ IsInt(k[2])

\* C26: any two distinct edges that join the same unordered endpoint pair
\* carry different sequence ids, whatever `edge new` commands (in either
\* endpoint order) and imports built the edge table.
C26_ParallelEdgesDifferInSeqId ==
    \A x, y \in DOMAIN edges :
       (x # y /\ Decodes(x) /\ Decodes(y) /\ EndpointSet(x) = EndpointSet(y))
          => x[3] # y[3]

\* C25: the decode sentinel (-1, -1) never collides with a real node: in
\* every state, also when a node with id -1 is registered, a name that does
\* not decode to two integer endpoints is not a visible edge and is not a
\* key of the edge table (no edge command has accepted it as an edge).
C25_SentinelNeverCollides ==
    \A name \in SpecialNames \cup DOMAIN edges :
       ~(Len(name) >= 3 /\ IsInt(name[1]) /\ IsInt(name[2]))
          => ~visible_edge(name) /\ name \notin DOMAIN edges

\* the edges of the table with both endpoints among the nodes N, and the
\* opposite endpoints of those incident to n, in either stored order
EdgesInside(N) ==
    {e \in DOMAIN edges : split_edge_name(e)[1] \in N /\ split_edge_name(e)[2] \in N}
OppositeEnds(N, n) ==
    {x \in N : \E e \in EdgesInside(N) :
        \/ split_edge_name(e) = <<n, x>>
        \/ split_edge_name(e) = <<x, n>>}

\* the nodes of the scope a query was asked in
ScopeNodes(scope) == IF scope = VIEW_SCOPE THEN visible_nodes ELSE clusters[scope].nodes

\* C24: neighbour computation is undirected.  In the view and in every
\* cluster, b is a neighbour of a iff a is a neighbour of b, and the
\* neighbours of n are the opposite endpoints of the visible edges incident
\* to n, whichever endpoint order the name stores; `nbr` lists that set and
\* the degree `n` reports is its size, so parallel edges count once.
C24_NeighboursUndirected ==
    /\ ViewOK =>
          /\ \A a, b \in DOMAIN nodes :
                (b \in neighbours_view(a)) <=> (a \in neighbours_view(b))
          /\ \A n \in DOMAIN nodes : neighbours_view(n) = OppositeEnds(visible_nodes, n)
    /\ \A c \in DOMAIN clusters :
          /\ \A a, b \in DOMAIN nodes :
                (b \in neighbours_cluster(c, a)) <=> (a \in neighbours_cluster(c, b))
          /\ \A n \in DOMAIN nodes :
                neighbours_cluster(c, n) = OppositeEnds(clusters[c].nodes, n)
    /\ out.ask.cmd = "nbr" => out.ids = OppositeEnds(ScopeNodes(out.ask.scope), out.ask.src)
    /\ out.ask.cmd = "n" =>
          out.count = Cardinality(OppositeEnds(ScopeNodes(out.ask.scope), out.ask.src))

\* `cluster open loop.csv c1` then `node n 2`: node 2 has the two parallel
\* edges 1_2_1 and 2_1_2 to node 1, stored in opposite endpoint orders, and
\* the degree reported is 1
C24_Witness ==
    /\ out.ask = Ask("n", VIEW_SCOPE, 2, 0)
    /\ out.count = 1
    /\ {make_edge_name(1, 2, 1), make_edge_name(2, 1, 2)} \subseteq DOMAIN edges
    /\ neighbours_view(1) = {1, 2}

\* the two searches agree for src, dst over the pool E, N: whatever list
\* _all_paths and whatever path _shortest_path return
SearchesAgree(src, dst, E, N) ==
    \A ps \in all_paths(src, dst, E, N), sp \in shortest_path(src, dst, E, N) :
       /\ (sp = << >>) <=> (ps = << >>)
       /\ sp # << >> =>
             /\ \E i \in 1..Len(ps) : NodesOf(ps[i]) = NodesOf(sp)
             /\ \A i \in 1..Len(ps) : Len(sp) <= Len(ps[i])

\* C30: the two path searches agree on the same view.  Whenever a path
\* command has been answered, then for all src and dst of the scope it was
\* asked in (the view, or the cluster named) the shortest-path result is
\* non-empty iff the all-simple-paths result is non-empty, and when it is
\* non-empty its node sequence is one of the enumerated simple paths and its
\* length is the least length among them.
C30_SearchesAgree ==
    out.ask.cmd \in {"p", "allp"} =>
       \A src, dst \in AskedNodes : SearchesAgree(src, dst, AskedEdges, AskedNodes)

\* `node p 3 1` after ring.csv was imported: all-simple-paths has the
\* routes 3-5-1 and 3-4-2-1, and the shortest path returned is 3-5-1
C30_Witness ==
    /\ out.ask = Ask("p", VIEW_SCOPE, 3, 1)
    /\ current_view = DEFAULT_CLUSTER
    /\ out.paths = << <<NodeItem(3), EdgeItem(make_edge_name(5, 3, 1)), NodeItem(5),
                        EdgeItem(make_edge_name(5, 1, 1)), NodeItem(1)>> >>
    /\ \A ps \in all_paths(3, 1, VisibleEdges, visible_nodes) :
          {NodesOf(ps[i]) : i \in 1..Len(ps)} = {<<3, 5, 1>>, <<3, 4, 2, 1>>}

\* the step is a view-scoped command aimed at node n: a node command on n,
\* a path command with n as an endpoint, or `edge new/get/up` with n as an
\* endpoint, by endpoint pair or by name
AimedAt(n) ==
    LET t == IntTok(n)
    IN  \/ NodeGet(t) \/ NodeRmv(t) \/ NodeNbr(t) \/ NodeN(t)
        \/ \E v \in UpVals : NodeUp(t, v)
        \/ \E o \in ViewToks :
              \/ NodeP(t, o) \/ NodeP(o, t) \/ NodeAllp(t, o) \/ NodeAllp(o, t)
              \/ EdgeGetPair(t, o) \/ EdgeGetPair(o, t)
              \/ \E v \in UpVals : EdgeUpPair(t, o, v) \/ EdgeUpPair(o, t, v)
              \/ \E te \in EidToks, v \in NewVals : EdgeNew(t, o, te, v) \/ EdgeNew(o, t, te, v)
        \/ \E name \in ViewNames :
              /\ n \in EndpointSet(name)
              /\ EdgeGetName(name) \/ \E v \in UpVals : EdgeUpName(name, v)

\* the step kept node n, its value, the edges incident to n and every
\* cluster's membership
KeptAround(n) ==
    /\ n \in DOMAIN nodes' /\ nodes'[n] = nodes[n]
    /\ \A e \in DOMAIN edges \cup DOMAIN edges' :
          n \in EndpointSet(e) =>
             e \in DOMAIN edges /\ e \in DOMAIN edges' /\ edges'[e] = edges[e]
    /\ DOMAIN clusters' = DOMAIN clusters
    /\ \A c \in DOMAIN clusters : clusters'[c].nodes = clusters[c].nodes

C29_NewNodeJoinsActiveCluster ==
    [][\A t \in IdToks, v \in Vals :
          (res' = "ok" /\ NodeNew(t, v)) =>
             LET n == IntOf(t)
             IN  /\ n \in DOMAIN nodes'
                 /\ n \in clusters'[DEFAULT_CLUSTER].nodes
                 /\ current_view # DEFAULT_CLUSTER => n \in clusters'[current_view].nodes
                 /\ \A c \in DOMAIN clusters \ {DEFAULT_CLUSTER, current_view} :
                       /\ clusters'[c] = clusters[c]
                       /\ n \notin clusters'[c].nodes
                 /\ DOMAIN clusters' = DOMAIN clusters
                 /\ n \in visible_nodes']_vars

\* `cluster open c.csv c1`, `cluster new 1 c2 A`, `cluster iso c1`,
\* `node new 2 A`: node 2 is registered and joined c1, not c2
C29_Witness ==
    /\ ncmds = 4 /\ res = "ok"
    /\ current_view = "c1"
    /\ DOMAIN nodes = {-1, 1, 2}
    /\ nodes[2] = StrVal("A")
    /\ DOMAIN clusters = {DEFAULT_CLUSTER, "c1", "c2"}
    /\ clusters[DEFAULT_CLUSTER].nodes = {-1, 1, 2}
    /\ clusters["c1"].nodes = {1, 2}
    /\ clusters["c2"].nodes = {1}

\* the step leaves the node table, the edge table, the clusters and the
\* isolation as they are
StoreUnchanged == UNCHANGED <<nodes, edges, clusters, current_view>>

C28_SearchesTerminate ==
    [](~Idle => <>(Idle /\ search.stack = << >> /\ search.queue = << >>))

\* `node allp 1 2` has returned on the graph of loop.csv, which has the
\* self-loop 1_1_1 and the parallel edges 1_2_1 and 2_1_2, after two passes
\* of the loop, with the one path 1-2
C28_Witness ==
    /\ Idle
    /\ search.steps = 2
    /\ make_edge_name(1, 1, 1) \in DOMAIN edges
    /\ {make_edge_name(1, 2, 1), make_edge_name(2, 1, 2)} \subseteq DOMAIN edges
    /\ out.ask = Ask("allp", VIEW_SCOPE, 1, 2)
    /\ Len(out.paths) = 1
    /\ NodesOf(out.paths[1]) = <<1, 2>>

====
